---------------------------- MODULE Spec2Model ----------------------------
(***************************************************************************)
(* A model of churn-core: the task store (Database), the task lifecycle    *)
(* and priority evaluation (TaskService), the recurrence engine            *)
(* (calculateNextDue), the priority curves and the daily planner.          *)
(*                                                                         *)
(* Conventions                                                             *)
(*  - An optional value (undefined / null in the source) is a sequence of  *)
(*    length 0 or 1: None is << >>, Some(v) is << v >>.                    *)
(*  - A Date is an integer count of minutes of local time since            *)
(*    2024-01-01 00:00 (a Monday).  The source counts milliseconds; every  *)
(*    instant of the model is a whole minute, so msPerDay becomes          *)
(*    MinPerDay.                                                           *)
(*  - A time-of-day string "HH:MM" is the pair << HH, MM >>; parseTime and *)
(*    formatTime convert between it and minutes since midnight.            *)
(*  - A priority (a JavaScript number) is an exact rational << n, d >>     *)
(*    with d > 0, kept in lowest terms.                                    *)
(***************************************************************************)
EXTENDS Integers, Sequences, FiniteSets, TLC

VARIABLES
    tasks,        \* the tasks table: a function from stored id to Task row
    nextId,       \* AUTOINCREMENT: the id the next insert receives
    completions,  \* the completions table: stored id -> number of rows
    now,          \* the wall clock (new Date())
    config,       \* the DailyPlanner's PlannerConfig
    last,         \* the last TaskService call: name, id, error, result
    plan,         \* the DailyPlan the last call returned, NoPlan if none
    calls         \* the asynchronous calls in flight or finished, each with its position

vars == << tasks, nextId, completions, now, config, last, plan, calls >>

(***************************************************************************)
(* Bounds of the model                                                     *)
(***************************************************************************)
\* tasks ever created in one run of the dependency specification
MaxTasks == 3

\* tasks ever created in one run of the lifecycle specification
MaxLifeTasks == 2

\* length of a dependency list given to create or update
MaxDeps == 2

\* completion rows of one task
MaxCompletions == 1

(***************************************************************************)
(* Optional values                                                         *)
(***************************************************************************)
None == << >>

Some(v) == << v >>

IsSome(o) == o # << >>

Get(o) == o[1]

OrElse(o, d) == IF o # << >> THEN o[1] ELSE d

SeqToSet(s) == { s[i] : i \in 1..Len(s) }

Max2(a, b) == IF a >= b THEN a ELSE b

Min2(a, b) == IF a <= b THEN a ELSE b

(***************************************************************************)
(* Numbers: a JavaScript number that is not an integer count is an exact   *)
(* rational << n, d >>, d > 0, in lowest terms                             *)
(***************************************************************************)
Abs(a) == IF a < 0 THEN -a ELSE a

RECURSIVE GCD(_, _)
GCD(a, b) == IF b = 0 THEN a ELSE GCD(b, a % b)

\* n / d in lowest terms with a positive denominator; d # 0
R(n, d) ==
    LET g == GCD(Abs(n), Abs(d))
        sgn == IF d < 0 THEN -1 ELSE 1
    IN  << sgn * (n \div g), sgn * (d \div g) >>

RAdd(a, b) == R(a[1] * b[2] + b[1] * a[2], a[2] * b[2])

RSub(a, b) == R(a[1] * b[2] - b[1] * a[2], a[2] * b[2])

RMul(a, b) == R(a[1] * b[1], a[2] * b[2])

\* a / b; b # 0
RDiv(a, b) == R(a[1] * b[2], a[2] * b[1])

RLt(a, b) == a[1] * b[2] < b[1] * a[2]

RLe(a, b) == a[1] * b[2] <= b[1] * a[2]

RAbs(a) == << Abs(a[1]), a[2] >>

RMin(a, b) == IF RLe(a, b) THEN a ELSE b

\* Math.pow(a, k) for a whole exponent k >= 0
RECURSIVE RPow(_, _)
RPow(a, k) == IF k = 0 THEN << 1, 1 >> ELSE RMul(a, RPow(a, k - 1))

(***************************************************************************)
(* Dates: minutes of local time since 2024-01-01 00:00                     *)
(***************************************************************************)
MinPerDay == 24 * 60

Days(n) == n * MinPerDay

\* Date.getHours() * 60 + Date.getMinutes()
MinuteOfDay(t) == t % MinPerDay

DayIndex(t) == t \div MinPerDay

\* Date.setHours(0, 0, 0, 0)
StartOfDay(t) == DayIndex(t) * MinPerDay

\* Date.setHours(h, m, 0, 0)
SetHours(t, h, m) == StartOfDay(t) + h * 60 + m

\* Date.getDay(): 0 = Sunday; day 0 of the model is Monday 2024-01-01
GetDay(t) == (DayIndex(t) + 1) % 7

IsLeap(y) == (2024 + y) % 4 = 0

DaysInYear(y) == IF IsLeap(y) THEN 366 ELSE 365

\* m is the JavaScript month index 0..11
DaysInMonth(y, m) ==
    CASE m = 1 -> IF IsLeap(y) THEN 29 ELSE 28
      [] m \in {3, 5, 8, 10} -> 30
      [] OTHER -> 31

RECURSIVE DaysBeforeYear(_)
DaysBeforeYear(y) == IF y = 0 THEN 0 ELSE DaysBeforeYear(y - 1) + DaysInYear(y - 1)

RECURSIVE DaysBeforeMonth(_, _)
DaysBeforeMonth(y, m) ==
    IF m = 0 THEN 0 ELSE DaysBeforeMonth(y, m - 1) + DaysInMonth(y, m - 1)

RECURSIVE YearOfDay(_, _)
YearOfDay(d, y) == IF d < DaysBeforeYear(y + 1) THEN y ELSE YearOfDay(d, y + 1)

RECURSIVE MonthOfDay(_, _, _)
MonthOfDay(d, y, m) ==
    IF d < DaysBeforeYear(y) + DaysBeforeMonth(y, m + 1) THEN m
    ELSE MonthOfDay(d, y, m + 1)

GetFullYear(t) == YearOfDay(DayIndex(t), 0)

\* Date.getMonth(): 0..11
GetMonth(t) == MonthOfDay(DayIndex(t), GetFullYear(t), 0)

\* Date.getDate(): 1..31
GetDate(t) ==
    DayIndex(t) - DaysBeforeYear(GetFullYear(t))
                - DaysBeforeMonth(GetFullYear(t), GetMonth(t)) + 1

\* new Date(y, m, d, 0, m') with JavaScript's normalisation: a month index of
\* 12 is January of the next year, a day past the end of the month runs on
\* into the following month.
MakeDate(y, m, d, minuteOfDay) ==
    LET yy == IF m > 11 THEN y + 1 ELSE y
        mm == IF m > 11 THEN m - 12 ELSE m
    IN  (DaysBeforeYear(yy) + DaysBeforeMonth(yy, mm) + d - 1) * MinPerDay + minuteOfDay

\* Date.setDate(getDate() + n)
AddDays(t, n) == t + n * MinPerDay

\* Date.setMonth(getMonth() + 1)
AddMonth(t) == MakeDate(GetFullYear(t), GetMonth(t) + 1, GetDate(t), MinuteOfDay(t))

(***************************************************************************)
(* Recurrence patterns (types.ts RecurrencePattern)                        *)
(***************************************************************************)
Pattern(mode, type) ==
    [ mode |-> mode, type |-> type, interval |-> None, unit |-> None,
      dayOfWeek |-> None, daysOfWeek |-> None, anchor |-> None ]

UnitDays(unit) ==
    CASE unit = "days" -> 1
      [] unit = "weeks" -> 7
      [] unit = "months" -> 30

\* pattern.interval && pattern.unit
HasInterval(pattern) ==
    /\ IsSome(pattern.interval)
    /\ Get(pattern.interval) # 0
    /\ IsSome(pattern.unit)

\* the while loop of the calendar interval branch, which adds step to next
\* as long as next <= now: it runs 0 times when next > now and otherwise
\* (now - next) \div step + 1 times (step > 0)
AdvancePast(next, nowT, step) ==
    IF next <= nowT THEN next + ((nowT - next) \div step + 1) * step ELSE next

\* the for loop of the calendar weekly daysOfWeek branch
RECURSIVE NextListedDay(_, _, _)
NextListedDay(next, days, i) ==
    IF i >= 7 THEN next
    ELSE IF GetDay(next) \in SeqToSet(days) THEN next
    ELSE NextListedDay(AddDays(next, 1), days, i + 1)

\* a faulty completion-mode interval that ignores the unit of an interval
CompletionIntervalDaysNoUnit(pattern) ==
    IF pattern.type = "daily" THEN 1
    ELSE IF pattern.type = "weekly" THEN 7
    ELSE IF pattern.type = "monthly" THEN 30
    ELSE IF pattern.type = "interval" /\ HasInterval(pattern)
         THEN Get(pattern.interval)
    ELSE 7

CompletionIntervalDays(pattern) ==
    IF pattern.type = "daily" THEN 1
    ELSE IF pattern.type = "weekly" THEN 7
    ELSE IF pattern.type = "monthly" THEN 30
    ELSE IF pattern.type = "interval" /\ HasInterval(pattern)
         THEN Get(pattern.interval) * UnitDays(Get(pattern.unit))
    ELSE 7

\* a faulty daily rule that keeps the time of day of the completion
DailyNextKeepsTime(nowT) == AddDays(nowT, 1)

DailyNext(nowT) == StartOfDay(AddDays(nowT, 1))

\* a faulty daysOfWeek branch that starts its search on the completion day
WeeklySetNextFromToday(pattern, nowT) ==
    NextListedDay(StartOfDay(nowT), Get(pattern.daysOfWeek), 0)

WeeklySetNext(pattern, nowT) ==
    NextListedDay(StartOfDay(AddDays(nowT, 1)), Get(pattern.daysOfWeek), 0)

\* a faulty single-weekday branch that accepts the completion day itself
WeeklyDayNextSameDay(pattern, nowT) ==
    LET diff == Get(pattern.dayOfWeek) - GetDay(nowT)
        daysUntil == IF diff < 0 THEN diff + 7 ELSE diff
    IN  StartOfDay(AddDays(nowT, daysUntil))

WeeklyDayNext(pattern, nowT) ==
    LET diff == Get(pattern.dayOfWeek) - GetDay(nowT)
        daysUntil == IF diff <= 0 THEN diff + 7 ELSE diff
    IN  StartOfDay(AddDays(nowT, daysUntil))

MonthlyNext(nowT) == StartOfDay(AddMonth(nowT))

IntervalNext(task, pattern, nowT) ==
    LET intervalDays == Get(pattern.interval) * UnitDays(Get(pattern.unit))
        anchor == OrElse(pattern.anchor, task.created_at)
    IN  AdvancePast(anchor, nowT, Days(intervalDays))

\* TaskService.calculateNextDue; the task has a recurrence pattern
CalculateNextDue(task, completedAt) ==
    LET pattern == Get(task.recurrence_pattern) IN
    IF pattern.mode = "completion"
    THEN completedAt + Days(CompletionIntervalDays(pattern))
    ELSE IF pattern.type = "daily" THEN DailyNext(completedAt)
    ELSE IF /\ pattern.type = "weekly"
            /\ IsSome(pattern.daysOfWeek)
            /\ Len(Get(pattern.daysOfWeek)) > 0
         THEN WeeklySetNext(pattern, completedAt)
    ELSE IF pattern.type = "weekly" /\ IsSome(pattern.dayOfWeek)
         THEN WeeklyDayNext(pattern, completedAt)
    ELSE IF pattern.type = "monthly" THEN MonthlyNext(completedAt)
    ELSE IF pattern.type = "interval" /\ HasInterval(pattern)
         THEN IntervalNext(task, pattern, completedAt)
    ELSE completedAt + Days(7)

(***************************************************************************)
(* Database: curve configuration and the tasks table                       *)
(***************************************************************************)
\* Partial<CurveConfig> with no key given
NoCurve ==
    [ type |-> None, start_date |-> None, deadline |-> None, exponent |-> None,
      window_start |-> None, window_end |-> None, priority |-> None,
      dependencies |-> None, then_curve |-> None, recurrence |-> None,
      buildup_rate |-> None ]

\* a faulty buildCurveConfig whose default type is linear, recurring or not
BuildCurveConfigLinearDefault(partialOpt, recurrencePattern, nowT) ==
    LET partial == OrElse(partialOpt, NoCurve)
        cfg == [ partial EXCEPT
                   !.type = Some(OrElse(partial.type, "linear")),
                   !.start_date = Some(OrElse(partial.start_date, nowT)),
                   !.deadline = Some(OrElse(partial.deadline, nowT + Days(7))) ]
    IN  IF /\ Get(cfg.type) = "accumulator"
           /\ ~IsSome(cfg.recurrence)
           /\ IsSome(recurrencePattern)
        THEN [ cfg EXCEPT !.recurrence = recurrencePattern ]
        ELSE cfg

\* Database.buildCurveConfig; the stored config always has a type
BuildCurveConfig(partialOpt, recurrencePattern, nowT) ==
    LET partial == OrElse(partialOpt, NoCurve)
        hasExplicitType == IsSome(partial.type)
        defaultType == IF ~hasExplicitType /\ IsSome(recurrencePattern)
                       THEN "accumulator" ELSE "linear"
        cfg == [ partial EXCEPT
                   !.type = Some(OrElse(partial.type, defaultType)),
                   !.start_date = Some(OrElse(partial.start_date, nowT)),
                   !.deadline = Some(OrElse(partial.deadline, nowT + Days(7))) ]
    IN  IF /\ Get(cfg.type) = "accumulator"
           /\ ~IsSome(cfg.recurrence)
           /\ IsSome(recurrencePattern)
        THEN [ cfg EXCEPT !.recurrence = recurrencePattern ]
        ELSE cfg

\* CreateTaskInput with only the title given
NoInput ==
    [ deadline |-> None, estimate_minutes |-> None, recurrence_pattern |-> None,
      window_start |-> None, window_end |-> None, dependencies |-> None,
      curve_config |-> None ]

\* UpdateTaskInput with no key given
NoUpdate ==
    [ deadline |-> None, estimate_minutes |-> None, recurrence_pattern |-> None,
      window_start |-> None, window_end |-> None, dependencies |-> None,
      curve_config |-> None, status |-> None ]

\* Database.insertTask followed by rowToTask: the row stored under id
NewRow(id, input, nowT) ==
    [ id |-> id,
      deadline |-> input.deadline,
      estimate_minutes |-> input.estimate_minutes,
      recurrence_pattern |-> input.recurrence_pattern,
      last_completed_at |-> None,
      next_due_at |-> None,
      window_start |-> input.window_start,
      window_end |-> input.window_end,
      dependencies |-> OrElse(input.dependencies, << >>),
      curve_config |-> BuildCurveConfig(input.curve_config, input.recurrence_pattern, nowT),
      status |-> "open",
      created_at |-> nowT ]

\* a function extended by one key
Put(T, id, row) == [ k \in DOMAIN T \cup {id} |-> IF k = id THEN row ELSE T[k] ]

\* a function with one key removed
Drop(T, id) == [ k \in DOMAIN T \ {id} |-> T[k] ]

InsertTask(T, id, input, nowT) == Put(T, id, NewRow(id, input, nowT))

\* Database.getTask
GetTask(T, id) == IF id \in DOMAIN T THEN Some(T[id]) ELSE None

\* the SET clause of Database.updateTask applied to one row
UpdatedRow(row, updates, nowT) ==
    [ row EXCEPT
        !.deadline = IF IsSome(updates.deadline) THEN updates.deadline ELSE @,
        !.estimate_minutes =
            IF IsSome(updates.estimate_minutes) THEN updates.estimate_minutes ELSE @,
        !.recurrence_pattern =
            IF IsSome(updates.recurrence_pattern) THEN updates.recurrence_pattern ELSE @,
        !.window_start = IF IsSome(updates.window_start) THEN updates.window_start ELSE @,
        !.window_end = IF IsSome(updates.window_end) THEN updates.window_end ELSE @,
        !.dependencies = IF IsSome(updates.dependencies) THEN Get(updates.dependencies) ELSE @,
        !.curve_config =
            IF IsSome(updates.curve_config)
            THEN BuildCurveConfig(updates.curve_config, updates.recurrence_pattern, nowT)
            ELSE @,
        !.status = IF IsSome(updates.status) THEN Get(updates.status) ELSE @ ]

\* a faulty updateTask that inserts a row when id is absent
UpdateTaskUpsert(T, id, updates, nowT) ==
    IF id \in DOMAIN T
    THEN [ T EXCEPT ![id] = UpdatedRow(T[id], updates, nowT) ]
    ELSE Put(T, id, UpdatedRow(NewRow(id, NoInput, nowT), updates, nowT))

\* Database.updateTask: UPDATE ... WHERE id = ? touches no row when id is absent
UpdateTask(T, id, updates, nowT) ==
    IF id \in DOMAIN T
    THEN [ T EXCEPT ![id] = UpdatedRow(T[id], updates, nowT) ]
    ELSE T

\* Database.deleteTask
DeleteTask(T, id) == Drop(T, id)

\* Database.setTaskLastCompleted
SetTaskLastCompleted(T, id, completedAt) ==
    IF id \in DOMAIN T
    THEN [ T EXCEPT ![id].last_completed_at = Some(completedAt) ]
    ELSE T

\* Database.setTaskNextDue
SetTaskNextDue(T, id, nextDue) ==
    IF id \in DOMAIN T
    THEN [ T EXCEPT ![id].next_due_at = Some(nextDue) ]
    ELSE T

\* Database.insertCompletion: one more row for task_id
InsertCompletion(C, id) == [ C EXCEPT ![id] = @ + 1 ]

\* Database.getTasks(filter): the ids with a status in statuses, in an order
\* ORDER BY created_at DESC allows (rows of equal created_at come in any order)
GetTasksOrders(T, statuses) ==
    LET ids == { id \in DOMAIN T : T[id].status \in statuses }
        n == Cardinality(ids)
    IN  { s \in [1..n -> ids] :
            /\ \A i, j \in 1..n : i # j => s[i] # s[j]
            /\ \A i \in 1..n, j \in 1..n :
                 i < j => T[s[i]].created_at >= T[s[j]].created_at }

AllStatuses == { "open", "in_progress", "completed", "blocked" }

(***************************************************************************)
(* TaskService: dependency validation                                      *)
(***************************************************************************)
Ok == [ kind |-> "ok", id |-> 0 ]

Err(kind, id) == [ kind |-> kind, id |-> id ]

\* a faulty existence loop that looks at the first id only
FirstMissingHeadOnly(T, dependencies, i) ==
    IF Len(dependencies) >= 1 /\ dependencies[1] \notin DOMAIN T
    THEN Some(dependencies[1])
    ELSE None

\* the existence loop of validateDependencies: the first id that is not stored
RECURSIVE FirstMissing(_, _, _)
FirstMissing(T, dependencies, i) ==
    IF i > Len(dependencies) THEN None
    ELSE IF dependencies[i] \notin DOMAIN T THEN Some(dependencies[i])
    ELSE FirstMissing(T, dependencies, i + 1)

\* a faulty walk that never expands the queue: only direct self-reference
ReachesExcludedDirect(T, queue, visited, excludeTaskId) ==
    excludeTaskId \in SeqToSet(queue)

\* the breadth-first walk of validateDependencies: TRUE when excludeTaskId is
\* taken from the queue
RECURSIVE ReachesExcluded(_, _, _, _)
ReachesExcluded(T, queue, visited, excludeTaskId) ==
    IF Len(queue) = 0 THEN FALSE
    ELSE LET current == Head(queue) IN
         IF current = excludeTaskId THEN TRUE
         ELSE IF current \in visited
              THEN ReachesExcluded(T, Tail(queue), visited, excludeTaskId)
         ELSE ReachesExcluded(
                  T,
                  Tail(queue) \o (IF current \in DOMAIN T THEN T[current].dependencies
                                  ELSE << >>),
                  visited \cup {current},
                  excludeTaskId)

\* TaskService.validateDependencies; excludeTaskId is None on create
ValidateDependencies(T, dependencies, excludeTaskId) ==
    LET missing == FirstMissing(T, dependencies, 1) IN
    IF IsSome(missing) THEN Err("Dependency task not found", Get(missing))
    ELSE IF /\ IsSome(excludeTaskId)
            /\ ReachesExcluded(T, dependencies, {}, Get(excludeTaskId))
         THEN Err("Circular dependency detected", 0)
    ELSE Ok

\* input.dependencies && input.dependencies.length > 0
GivesDependencies(input) ==
    IsSome(input.dependencies) /\ Len(Get(input.dependencies)) > 0

\* a faulty getDependents that overlooks dependents already completed
GetDependentsNotCompleted(T, id) ==
    { k \in DOMAIN T : id \in SeqToSet(T[k].dependencies) /\ T[k].status # "completed" }

\* TaskService.getDependents
GetDependents(T, id) == { k \in DOMAIN T : id \in SeqToSet(T[k].dependencies) }

(***************************************************************************)
(* Priority curves                                                         *)
(***************************************************************************)
Zero == << 0, 1 >>

One == << 1, 1 >>

\* what 0 / 0 gives: not a number, which no comparison holds for
NaN == << 0, 0 >>

IsNumber(a) == a[2] # 0

\* the LinearCurve constructor throws
LinearRejects(startDate, deadline) == deadline <= startDate

\* a faulty linear curve that stays at 1 behind the deadline
LinearCalculateCapped(startDate, deadline, datetime) ==
    IF datetime < startDate THEN Zero
    ELSE IF datetime > deadline THEN One
    ELSE R(datetime - startDate, deadline - startDate)

\* LinearCurve.calculate; deadline > startDate
LinearCalculate(startDate, deadline, datetime) ==
    IF datetime < startDate THEN Zero
    ELSE IF datetime > deadline
         THEN RAdd(One, R(datetime - deadline, deadline - startDate))
    ELSE R(datetime - startDate, deadline - startDate)

\* the ExponentialCurve constructor throws
ExponentialRejects(startDate, deadline, exponent) ==
    deadline <= startDate \/ exponent < 1 \/ exponent > 5

\* a faulty exponential curve that raises the overdue value to the exponent
ExponentialCalculateOverduePow(startDate, deadline, exponent, datetime) ==
    IF datetime < startDate THEN Zero
    ELSE RPow(LinearCalculate(startDate, deadline, datetime), exponent)

\* ExponentialCurve.calculate; deadline > startDate, a whole exponent
ExponentialCalculate(startDate, deadline, exponent, datetime) ==
    IF datetime < startDate THEN Zero
    ELSE IF datetime > deadline
         THEN RAdd(One, R(datetime - deadline, deadline - startDate))
    ELSE RPow(R(datetime - startDate, deadline - startDate), exponent)

\* HardWindowCurve.calculate
HardWindowCalculate(windowStart, windowEnd, priority, datetime) ==
    IF datetime >= windowStart /\ datetime <= windowEnd THEN priority ELSE Zero

\* AccumulatorCurve.getExpectedIntervalDays
GetExpectedIntervalDays(recurrence) ==
    CASE recurrence.type = "daily" -> 1
      [] recurrence.type = "weekly" -> 7
      [] recurrence.type = "monthly" -> 30
      [] recurrence.type = "interval" ->
           OrElse(recurrence.interval, 1) * UnitDays(OrElse(recurrence.unit, "days"))
      [] OTHER -> 7

\* AccumulatorCurve.calculateCalendarMode; with an expected interval of 0
\* (an interval pattern with interval 0) progress at the due instant is
\* 1 - 0 / 0
CalculateCalendarMode(recurrence, nowT, due, buildupRate) ==
    LET expectedInterval == GetExpectedIntervalDays(recurrence)
        half == R(expectedInterval, 2)
        daysUntilDue == R(due - nowT, MinPerDay)
    IN  IF RLt(half, daysUntilDue) THEN R(1, 5)
        ELSE IF RLt(daysUntilDue, Zero)
             THEN RMin(R(3, 2), RAdd(One, RMul(RAbs(daysUntilDue), buildupRate)))
        ELSE IF half = Zero THEN NaN
        ELSE RAdd(R(1, 5), RMul(RSub(One, RDiv(daysUntilDue, half)), R(4, 5)))

\* AccumulatorCurve.calculateCompletionMode; with an expected interval of 0
\* the ratio is -Infinity, 0 / 0 or Infinity, and only -Infinity is below 0.5
CalculateCompletionMode(recurrence, lastCompleted, nowT) ==
    LET expectedDays == GetExpectedIntervalDays(recurrence)
        lastDone == OrElse(lastCompleted, nowT - Days(expectedDays))
        daysSince == R(nowT - lastDone, MinPerDay)
        ratio == RDiv(daysSince, R(expectedDays, 1))
    IN  IF expectedDays = 0 THEN (IF nowT < lastDone THEN R(1, 10) ELSE One)
        ELSE IF RLt(ratio, R(1, 2)) THEN R(1, 10)
        ELSE IF RLt(ratio, R(4, 5)) THEN R(3, 10)
        ELSE IF RLt(ratio, One) THEN R(3, 5)
        ELSE IF RLt(ratio, R(6, 5)) THEN R(9, 10)
        ELSE One

\* AccumulatorCurve.calculate
AccumulatorCalculate(recurrence, lastCompleted, nextDue, buildupRate, datetime) ==
    IF recurrence.mode = "calendar"
    THEN CalculateCalendarMode(recurrence, datetime, nextDue, buildupRate)
    ELSE CalculateCompletionMode(recurrence, lastCompleted, datetime)

\* the BlockedCurve constructor throws
BlockedRejects(dependencies) == Len(dependencies) = 0

\* a faulty check that passes over the dependencies that are not stored
BlockedAllCompleteStored(T, dependencies) ==
    \A i \in 1..Len(dependencies) :
        dependencies[i] \in DOMAIN T => T[dependencies[i]].status = "completed"

\* BlockedCurve.allDependenciesComplete, asked of the store through getTask
BlockedAllComplete(T, dependencies) ==
    \A i \in 1..Len(dependencies) :
        /\ dependencies[i] \in DOMAIN T
        /\ T[dependencies[i]].status = "completed"

\* BlockedCurve.calculate; thenValue is thenCurve.calculate(datetime)
BlockedCalculate(T, dependencies, thenValue) ==
    IF ~BlockedAllComplete(T, dependencies) THEN Zero ELSE thenValue

\* CurveFactory.create(config, checker, task) followed by calculate(datetime):
\* None when create throws, else the number calculate returns.  nowT is what
\* new Date() reads.
RECURSIVE CurveFactoryCreate(_, _, _, _, _)
CurveFactoryCreate(T, cfg, taskOpt, datetime, nowT) ==
    LET type == Get(cfg.type)
        start == OrElse(cfg.start_date, nowT)
        end == OrElse(cfg.deadline, nowT + Days(7))
    IN  CASE type = "linear" ->
               IF end <= start THEN None
               ELSE Some(LinearCalculate(start, end, datetime))
          [] type = "exponential" ->
               LET exponent == OrElse(cfg.exponent, 2) IN
               IF end <= start \/ exponent < 1 \/ exponent > 5 THEN None
               ELSE Some(ExponentialCalculate(start, end, exponent, datetime))
          [] type = "hard_window" ->
               IF ~IsSome(cfg.window_start) \/ ~IsSome(cfg.window_end) THEN None
               ELSE LET priority == OrElse(cfg.priority, One) IN
                    IF \/ Get(cfg.window_end) <= Get(cfg.window_start)
                       \/ RLt(priority, Zero)
                       \/ RLt(R(2, 1), priority)
                    THEN None
                    ELSE Some(HardWindowCalculate(Get(cfg.window_start),
                                                  Get(cfg.window_end), priority, datetime))
          [] type = "blocked" ->
               IF ~IsSome(cfg.dependencies) \/ Len(Get(cfg.dependencies)) = 0 THEN None
               ELSE LET wrapped ==
                            CurveFactoryCreate(
                                T,
                                [ NoCurve EXCEPT
                                    !.type = Some(OrElse(cfg.then_curve, "linear")),
                                    !.start_date = Some(start),
                                    !.deadline = cfg.deadline ],
                                None, datetime, nowT)
                    IN  IF wrapped = None THEN None
                        ELSE IF ~BlockedAllComplete(T, Get(cfg.dependencies)) THEN Some(Zero)
                        ELSE wrapped
          [] type = "accumulator" ->
               IF ~IsSome(cfg.recurrence) THEN None
               ELSE Some(AccumulatorCalculate(
                             Get(cfg.recurrence),
                             IF IsSome(taskOpt) THEN Get(taskOpt).last_completed_at ELSE None,
                             IF IsSome(taskOpt) THEN OrElse(Get(taskOpt).next_due_at, nowT)
                             ELSE nowT,
                             OrElse(cfg.buildup_rate, R(1, 10)),
                             datetime))
          [] OTHER -> None

(***************************************************************************)
(* TaskService: priority                                                   *)
(***************************************************************************)
\* a faulty check that takes a dependency for complete once it has been
\* completed, whatever its status now
AllDependenciesCompletedOnce(T, dependencies) ==
    \A i \in 1..Len(dependencies) :
        /\ dependencies[i] \in DOMAIN T
        /\ \/ T[dependencies[i]].status = "completed"
           \/ IsSome(T[dependencies[i]].last_completed_at)

\* TaskService.allDependenciesComplete
AllDependenciesComplete(T, dependencies) ==
    \A i \in 1..Len(dependencies) :
        /\ dependencies[i] \in DOMAIN T
        /\ T[dependencies[i]].status = "completed"

\* a faulty window test whose upper bound is exclusive
IsInTimeWindowEndExclusive(datetime, windowStart, windowEnd) ==
    LET currentTime == MinuteOfDay(datetime)
        startTime == windowStart[1] * 60 + windowStart[2]
        endTime == windowEnd[1] * 60 + windowEnd[2]
    IN  IF startTime > endTime
        THEN currentTime >= startTime \/ currentTime < endTime
        ELSE currentTime >= startTime /\ currentTime < endTime

\* TaskService.isInTimeWindow
IsInTimeWindow(datetime, windowStart, windowEnd) ==
    LET currentTime == MinuteOfDay(datetime)
        startTime == windowStart[1] * 60 + windowStart[2]
        endTime == windowEnd[1] * 60 + windowEnd[2]
    IN  IF startTime > endTime
        THEN currentTime >= startTime \/ currentTime <= endTime
        ELSE currentTime >= startTime /\ currentTime <= endTime

\* TaskService.calculateLinearPriority; the end differs from the start
CalculateLinearPriority(task, datetime) ==
    LET start == task.created_at
        end == OrElse(task.deadline, start + Days(7))
    IN  IF datetime < start THEN Zero
        ELSE IF datetime > end THEN RAdd(One, R(datetime - end, end - start))
        ELSE R(datetime - start, end - start)

\* a faulty catch that gives 0 when the curve cannot be built
CurveOrZero(T, task, datetime, nowT) ==
    LET value == CurveFactoryCreate(T, task.curve_config, Some(task), datetime, nowT)
    IN  IF IsSome(value) THEN Get(value) ELSE Zero

\* the try block of calculateTaskPriority with its catch
CurveOrLinear(T, task, datetime, nowT) ==
    LET value == CurveFactoryCreate(T, task.curve_config, Some(task), datetime, nowT)
    IN  IF IsSome(value) THEN Get(value) ELSE CalculateLinearPriority(task, datetime)

\* TaskService.calculateTaskPriority
CalculateTaskPriority(T, task, datetime, nowT) ==
    IF /\ Len(task.dependencies) > 0
       /\ ~AllDependenciesComplete(T, task.dependencies)
    THEN Zero
    ELSE IF /\ IsSome(task.window_start)
            /\ IsSome(task.window_end)
            /\ ~IsInTimeWindow(datetime, Get(task.window_start), Get(task.window_end))
         THEN Zero
    ELSE CurveOrLinear(T, task, datetime, nowT)

\* tasksWithPriority.sort: one entry put into a list already sorted by
\* priority descending, behind every entry whose priority is not lower
RECURSIVE InsertByPriority(_, _)
InsertByPriority(sorted, e) ==
    IF sorted = << >> THEN << e >>
    ELSE IF RLt(Head(sorted).priority, e.priority) THEN << e >> \o sorted
    ELSE << Head(sorted) >> \o InsertByPriority(Tail(sorted), e)

\* tasksWithPriority.sort((a, b) => b.priority - a.priority), a stable sort,
\* of the first n entries
RECURSIVE SortByPriority(_, _)
SortByPriority(entries, n) ==
    IF n = 0 THEN << >>
    ELSE InsertByPriority(SortByPriority(entries, n - 1), entries[n])

\* TaskService.getByPriority(limit, datetime): the lists it may return, one
\* for each order getTasks may give the rows in
GetByPriority(T, limit, datetime, nowT) ==
    { LET entries == [ i \in 1..Len(order) |->
                         [ task |-> T[order[i]],
                           priority |-> CalculateTaskPriority(T, T[order[i]], datetime, nowT) ] ]
          sorted == SortByPriority(entries, Len(entries))
      IN  IF IsSome(limit) /\ Get(limit) # 0
          THEN SubSeq(sorted, 1, Min2(Get(limit), Len(sorted)))
          ELSE sorted
      : order \in GetTasksOrders(T, { "open", "in_progress" }) }

(***************************************************************************)
(* DailyPlanner                                                            *)
(***************************************************************************)
\* the default of options.limit in planDay
DefaultLimit == 8

\* PlannerConfig DEFAULT_CONFIG
DefaultConfig ==
    [ workHoursStart |-> << 8, 0 >>, workHoursEnd |-> << 17, 0 >>,
      defaultEstimateMinutes |-> 15 ]

\* Partial<PlannerConfig> with no key given
NoPlannerConfig ==
    [ workHoursStart |-> None, workHoursEnd |-> None, defaultEstimateMinutes |-> None ]

\* the DailyPlanner constructor: { ...DEFAULT_CONFIG, ...config }
NewPlanner(partial) ==
    [ workHoursStart |-> OrElse(partial.workHoursStart, DefaultConfig.workHoursStart),
      workHoursEnd |-> OrElse(partial.workHoursEnd, DefaultConfig.workHoursEnd),
      defaultEstimateMinutes |->
          OrElse(partial.defaultEstimateMinutes, DefaultConfig.defaultEstimateMinutes) ]

\* parseTime: "HH:MM" to minutes since midnight
ParseTime(time) == time[1] * 60 + time[2]

\* formatTime: minutes since midnight (>= 0) to "HH:MM"
FormatTime(minutes) == << minutes \div 60, minutes % 60 >>

\* rangeIntersection
RangeIntersection(start1, end1, start2, end2) ==
    LET start == Max2(start1, start2)
        end == Min2(end1, end2)
    IN  IF start >= end THEN None ELSE Some([ start |-> start, end |-> end ])

\* one slot put into a list sorted by start, behind every slot that does not
\* start later
RECURSIVE InsertByStart(_, _)
InsertByStart(sorted, slot) ==
    IF sorted = << >> THEN << slot >>
    ELSE IF slot.start < Head(sorted).start THEN << slot >> \o sorted
    ELSE << Head(sorted) >> \o InsertByStart(Tail(sorted), slot)

\* slots.sort((a, b) => a.start - b.start), a stable sort, of the first n slots
RECURSIVE SortByStart(_, _)
SortByStart(slots, n) ==
    IF n = 0 THEN << >>
    ELSE InsertByStart(SortByStart(slots, n - 1), slots[n])

\* a faulty search between slots that does not clip the gap to the allowed
\* range
GapBetweenUnclipped(sorted, i, allowedStart, allowedEnd, durationMinutes) ==
    LET ok == { k \in i..(Len(sorted) - 1) :
                  sorted[k + 1].start - sorted[k].end >= durationMinutes }
        first == CHOOSE k \in ok : \A j \in ok : k <= j
    IN  IF ok = {} THEN None
        ELSE Some([ start |-> sorted[first].end,
                    end |-> sorted[first].end + durationMinutes ])

\* the loop of findAvailableSlot over the gaps between slots, from index i
RECURSIVE GapBetween(_, _, _, _, _)
GapBetween(sorted, i, allowedStart, allowedEnd, durationMinutes) ==
    IF i > Len(sorted) - 1 THEN None
    ELSE LET gapStart == Max2(sorted[i].end, allowedStart)
             gapEnd == Min2(sorted[i + 1].start, allowedEnd)
         IN  IF gapEnd - gapStart >= durationMinutes
             THEN Some([ start |-> gapStart, end |-> gapStart + durationMinutes ])
             ELSE GapBetween(sorted, i + 1, allowedStart, allowedEnd, durationMinutes)

\* DailyPlanner.findAvailableSlot
FindAvailableSlot(usedSlots, allowedStart, allowedEnd, durationMinutes) ==
    LET sorted == SortByStart(usedSlots, Len(usedSlots))
        atStart == Some([ start |-> allowedStart, end |-> allowedStart + durationMinutes ])
    IN  IF Len(sorted) = 0
        THEN IF allowedEnd - allowedStart >= durationMinutes THEN atStart ELSE None
        ELSE IF /\ sorted[1].start > allowedStart
                /\ Min2(sorted[1].start, allowedEnd) - allowedStart >= durationMinutes
             THEN atStart
        ELSE LET between == GapBetween(sorted, 1, allowedStart, allowedEnd, durationMinutes)
                 lastSlotEnd == sorted[Len(sorted)].end
                 gapStart == Max2(lastSlotEnd, allowedStart)
             IN  IF IsSome(between) THEN between
                 ELSE IF /\ lastSlotEnd < allowedEnd
                         /\ allowedEnd - gapStart >= durationMinutes
                      THEN Some([ start |-> gapStart, end |-> gapStart + durationMinutes ])
                 ELSE None

\* a faulty test that lets a windowed task through whatever its priority
IsActionableWindowFirst(e, date) ==
    IF IsSome(e.task.window_start) /\ IsSome(e.task.window_end) THEN TRUE
    ELSE IF e.priority = Zero THEN FALSE
    ELSE IF /\ IsSome(e.task.deadline)
            /\ StartOfDay(Get(e.task.deadline)) <= StartOfDay(date)
         THEN TRUE
    ELSE IF /\ IsSome(e.task.next_due_at)
            /\ StartOfDay(Get(e.task.next_due_at)) <= StartOfDay(date)
         THEN TRUE
    ELSE RLt(R(3, 10), e.priority)

\* the test of DailyPlanner.filterActionable on one entry
IsActionable(e, date) ==
    IF e.priority = Zero THEN FALSE
    ELSE IF /\ IsSome(e.task.deadline)
            /\ StartOfDay(Get(e.task.deadline)) <= StartOfDay(date)
         THEN TRUE
    ELSE IF /\ IsSome(e.task.next_due_at)
            /\ StartOfDay(Get(e.task.next_due_at)) <= StartOfDay(date)
         THEN TRUE
    ELSE IF IsSome(e.task.window_start) /\ IsSome(e.task.window_end) THEN TRUE
    ELSE RLt(R(3, 10), e.priority)

\* DailyPlanner.filterActionable
FilterActionable(entries, date) == SelectSeq(entries, LAMBDA e : IsActionable(e, date))

\* task.estimate_minutes ?? this.config.defaultEstimateMinutes
EstimateOf(task, cfg) == OrElse(task.estimate_minutes, cfg.defaultEstimateMinutes)

\* !task.estimate_minutes
IsDefaultEstimate(task) ==
    ~IsSome(task.estimate_minutes) \/ Get(task.estimate_minutes) = 0

\* a faulty scheduling loop that stops one entry late: it tests the limit
\* with > where the source has >=
RECURSIVE ScheduleFromLate(_, _, _, _, _, _, _)
ScheduleFromLate(actionable, i, usedSlots, scheduled, unscheduled, limit, cfg) ==
    IF i > Len(actionable) \/ Len(scheduled) > limit
    THEN [ scheduled |-> scheduled, unscheduled |-> unscheduled ]
    ELSE LET e == actionable[i]
             workStart == ParseTime(cfg.workHoursStart)
             workEnd == ParseTime(cfg.workHoursEnd)
             estimateMinutes == EstimateOf(e.task, cfg)
             windowed == IsSome(e.task.window_start) /\ IsSome(e.task.window_end)
             intersection ==
                 IF windowed
                 THEN RangeIntersection(workStart, workEnd,
                                        ParseTime(Get(e.task.window_start)),
                                        ParseTime(Get(e.task.window_end)))
                 ELSE Some([ start |-> workStart, end |-> workEnd ])
             slot == FindAvailableSlot(usedSlots, Get(intersection).start,
                                       Get(intersection).end, estimateMinutes)
         IN  IF ~IsSome(intersection)
             THEN ScheduleFromLate(actionable, i + 1, usedSlots, scheduled,
                               Append(unscheduled,
                                      [ task |-> e, reason |-> "window outside work hours" ]),
                               limit, cfg)
             ELSE IF IsSome(slot)
                  THEN ScheduleFromLate(
                           actionable, i + 1,
                           SortByStart(Append(usedSlots, Get(slot)), Len(usedSlots) + 1),
                           Append(scheduled,
                                  [ task |-> e,
                                    slot |-> [ start |-> FormatTime(Get(slot).start),
                                               end |-> FormatTime(Get(slot).end) ],
                                    estimateMinutes |-> estimateMinutes,
                                    isDefaultEstimate |-> IsDefaultEstimate(e.task) ]),
                           unscheduled, limit, cfg)
             ELSE ScheduleFromLate(actionable, i + 1, usedSlots, scheduled,
                               Append(unscheduled, [ task |-> e, reason |-> "does not fit" ]),
                               limit, cfg)

\* the scheduling loop of planDay from entry i on
RECURSIVE ScheduleFrom(_, _, _, _, _, _, _)
ScheduleFrom(actionable, i, usedSlots, scheduled, unscheduled, limit, cfg) ==
    IF i > Len(actionable) \/ Len(scheduled) >= limit
    THEN [ scheduled |-> scheduled, unscheduled |-> unscheduled ]
    ELSE LET e == actionable[i]
             workStart == ParseTime(cfg.workHoursStart)
             workEnd == ParseTime(cfg.workHoursEnd)
             estimateMinutes == EstimateOf(e.task, cfg)
             windowed == IsSome(e.task.window_start) /\ IsSome(e.task.window_end)
             intersection ==
                 IF windowed
                 THEN RangeIntersection(workStart, workEnd,
                                        ParseTime(Get(e.task.window_start)),
                                        ParseTime(Get(e.task.window_end)))
                 ELSE Some([ start |-> workStart, end |-> workEnd ])
             slot == FindAvailableSlot(usedSlots, Get(intersection).start,
                                       Get(intersection).end, estimateMinutes)
         IN  IF ~IsSome(intersection)
             THEN ScheduleFrom(actionable, i + 1, usedSlots, scheduled,
                               Append(unscheduled,
                                      [ task |-> e, reason |-> "window outside work hours" ]),
                               limit, cfg)
             ELSE IF IsSome(slot)
                  THEN ScheduleFrom(
                           actionable, i + 1,
                           SortByStart(Append(usedSlots, Get(slot)), Len(usedSlots) + 1),
                           Append(scheduled,
                                  [ task |-> e,
                                    slot |-> [ start |-> FormatTime(Get(slot).start),
                                               end |-> FormatTime(Get(slot).end) ],
                                    estimateMinutes |-> estimateMinutes,
                                    isDefaultEstimate |-> IsDefaultEstimate(e.task) ]),
                           unscheduled, limit, cfg)
             ELSE ScheduleFrom(actionable, i + 1, usedSlots, scheduled,
                               Append(unscheduled, [ task |-> e, reason |-> "does not fit" ]),
                               limit, cfg)

\* scheduled.reduce((sum, s) => sum + s.estimateMinutes, 0) over the first n
RECURSIVE TotalScheduled(_, _)
TotalScheduled(scheduled, n) ==
    IF n = 0 THEN 0 ELSE TotalScheduled(scheduled, n - 1) + scheduled[n].estimateMinutes

\* the instant planDay evaluates priorities at: 9 AM or work start, whichever
\* hour is later, with the minutes of work start
PriorityTime(date, cfg) ==
    SetHours(date, Max2(cfg.workHoursStart[1], 9), cfg.workHoursStart[2])

\* the DailyPlan planDay builds from the prioritised list entries
PlanOf(entries, date, limit, includeTimeBlocks, cfg) ==
    LET actionable == FilterActionable(entries, date)
        totalWorkMinutes == ParseTime(cfg.workHoursEnd) - ParseTime(cfg.workHoursStart)
        workHours == [ start |-> cfg.workHoursStart, end |-> cfg.workHoursEnd ]
        listed == [ i \in 1..Min2(limit, Len(actionable)) |->
                      [ task |-> actionable[i],
                        slot |-> workHours,
                        estimateMinutes |-> EstimateOf(actionable[i].task, cfg),
                        isDefaultEstimate |-> IsDefaultEstimate(actionable[i].task) ] ]
        blocks == ScheduleFrom(actionable, 1, << >>, << >>, << >>, limit, cfg)
        scheduled == IF includeTimeBlocks THEN blocks.scheduled ELSE listed
        total == TotalScheduled(scheduled, Len(scheduled))
    IN  [ date |-> date,
          workHours |-> workHours,
          scheduled |-> scheduled,
          unscheduled |-> IF includeTimeBlocks THEN blocks.unscheduled ELSE << >>,
          totalScheduledMinutes |-> total,
          remainingMinutes |-> totalWorkMinutes - total ]

\* the value of plan when the last call returned no DailyPlan
NoPlan ==
    [ date |-> 0,
      workHours |-> [ start |-> << 0, 0 >>, end |-> << 0, 0 >> ],
      scheduled |-> << >>, unscheduled |-> << >>,
      totalScheduledMinutes |-> 0, remainingMinutes |-> 0 ]

(***************************************************************************)
(* TaskService: the calls, each run to completion                          *)
(***************************************************************************)
\* the record of a call: its name, the id it was given, how it ended, what it
\* returned (val) and the instant it was asked about (at)
Called(op, id, err, val) ==
    [ op |-> op, id |-> id, err |-> err.kind, errId |-> err.id, val |-> val,
      at |-> None ]

\* TaskService.create
Create(input) ==
    /\ LET v == IF GivesDependencies(input)
                THEN ValidateDependencies(tasks, Get(input.dependencies), None)
                ELSE Ok
       IN  IF v.kind # "ok"
           THEN /\ last' = Called("create", 0, v, None)
                /\ UNCHANGED << tasks, nextId, completions >>
           ELSE /\ tasks' = InsertTask(tasks, nextId, input, now)
                /\ nextId' = nextId + 1
                /\ completions' = Put(completions, nextId, 0)
                /\ last' = Called("create", nextId, Ok, None)
    /\ plan' = NoPlan
    /\ UNCHANGED << now, config, calls >>

\* TaskService.update
Update(id, updates) ==
    /\ LET v == IF GivesDependencies(updates)
                THEN ValidateDependencies(tasks, Get(updates.dependencies), Some(id))
                ELSE Ok
       IN  IF v.kind # "ok"
           THEN /\ last' = Called("update", id, v, None)
                /\ UNCHANGED tasks
           ELSE /\ tasks' = UpdateTask(tasks, id, updates, now)
                /\ last' = Called("update", id,
                                  IF id \in DOMAIN tasks THEN Ok
                                  ELSE Err("Task not found", id), None)
    /\ plan' = NoPlan
    /\ UNCHANGED << nextId, completions, now, config, calls >>

\* TaskService.delete; the completions of a deleted task go with it
\* (ON DELETE CASCADE)
Delete(id) ==
    /\ IF GetDependents(tasks, id) # {}
       THEN /\ last' = Called("delete", id, Err("Cannot delete task", id), None)
            /\ UNCHANGED << tasks, completions >>
       ELSE /\ tasks' = DeleteTask(tasks, id)
            /\ completions' = Drop(completions, id)
            /\ last' = Called("delete", id, Ok, None)
    /\ plan' = NoPlan
    /\ UNCHANGED << nextId, now, config, calls >>

\* a faulty complete that records last_completed_at for recurring tasks only
CompletedNoStamp(T, id, completedAt) ==
    LET task == T[id]
        T1 == SetTaskLastCompleted(T, id, completedAt)
    IN  IF IsSome(task.recurrence_pattern)
        THEN UpdateTask(SetTaskNextDue(T1, id, CalculateNextDue(task, completedAt)),
                        id, [ NoUpdate EXCEPT !.status = Some("open") ], now)
        ELSE UpdateTask(T, id, [ NoUpdate EXCEPT !.status = Some("completed") ], now)

\* a faulty complete that marks every task completed, recurring or not
CompletedAlways(T, id, completedAt) ==
    LET task == T[id]
        T1 == SetTaskLastCompleted(T, id, completedAt)
        T2 == IF IsSome(task.recurrence_pattern)
              THEN SetTaskNextDue(T1, id, CalculateNextDue(task, completedAt))
              ELSE T1
    IN  UpdateTask(T2, id, [ NoUpdate EXCEPT !.status = Some("completed") ], now)

\* the store after TaskService.complete on a stored task
Completed(T, id, completedAt) ==
    LET task == T[id]
        T1 == SetTaskLastCompleted(T, id, completedAt)
    IN  IF IsSome(task.recurrence_pattern)
        THEN UpdateTask(SetTaskNextDue(T1, id, CalculateNextDue(task, completedAt)),
                        id, [ NoUpdate EXCEPT !.status = Some("open") ], now)
        ELSE UpdateTask(T1, id, [ NoUpdate EXCEPT !.status = Some("completed") ], now)

\* TaskService.complete
Complete(id, completedAt) ==
    /\ id \in DOMAIN tasks => completions[id] < MaxCompletions
    /\ IF id \notin DOMAIN tasks
       THEN /\ last' = Called("complete", id, Err("Task not found", id), None)
            /\ UNCHANGED << tasks, completions >>
       ELSE /\ completions' = InsertCompletion(completions, id)
            /\ tasks' = Completed(tasks, id, completedAt)
            /\ last' = Called("complete", id, Ok, Some(completedAt))
    /\ plan' = NoPlan
    /\ UNCHANGED << nextId, now, config, calls >>

\* TaskService.calculatePriority(id, datetime); datetime defaults to new Date()
CalculatePriority(id, datetime) ==
    /\ IF id \notin DOMAIN tasks
       THEN last' = Called("calculatePriority", id, Err("Task not found", id), None)
       ELSE last' = [ Called("calculatePriority", id, Ok,
                             Some(CalculateTaskPriority(tasks, tasks[id],
                                                        OrElse(datetime, now), now)))
                      EXCEPT !.at = Some(OrElse(datetime, now)) ]
    /\ plan' = NoPlan
    /\ UNCHANGED << tasks, nextId, completions, now, config, calls >>

\* Database.deleteTask called on the store directly, as the exported Database
\* class allows: no check for dependents
DbDeleteTask(id) ==
    /\ id \in DOMAIN tasks
    /\ tasks' = DeleteTask(tasks, id)
    /\ completions' = Drop(completions, id)
    /\ last' = Called("db.deleteTask", id, Ok, None)
    /\ plan' = NoPlan
    /\ UNCHANGED << nextId, now, config, calls >>

\* DailyPlanner.planDay(taskService, date, { limit, includeTimeBlocks })
PlanDay(date, limit, includeTimeBlocks) ==
    /\ \E entries \in GetByPriority(tasks, Some(OrElse(limit, DefaultLimit) * 2),
                                     PriorityTime(date, config), now) :
         plan' = PlanOf(entries, date, OrElse(limit, DefaultLimit),
                        OrElse(includeTimeBlocks, TRUE), config)
    /\ last' = [ Called("planDay", 0, Ok,
                        Some([ limit |-> OrElse(limit, DefaultLimit),
                               includeTimeBlocks |-> OrElse(includeTimeBlocks, TRUE) ]))
                 EXCEPT !.at = Some(date) ]
    /\ UNCHANGED << tasks, nextId, completions, now, config, calls >>

\* TaskService.getByPriority(limit, datetime) called by a client; limit None
\* is a call without a limit, datetime defaults to new Date()
ListByPriority(limit, datetime) ==
    /\ \E entries \in GetByPriority(tasks, limit, OrElse(datetime, now), now) :
         last' = [ Called("getByPriority", 0, Ok,
                          Some([ limit |-> limit, list |-> entries ]))
                   EXCEPT !.at = Some(OrElse(datetime, now)) ]
    /\ plan' = NoPlan
    /\ UNCHANGED << tasks, nextId, completions, now, config, calls >>

\* TaskService.getDependencies: the dependencies of the task that are stored,
\* in the order of its list
GetDependencies(id) ==
    /\ IF id \notin DOMAIN tasks
       THEN last' = Called("getDependencies", id, Err("Task not found", id), None)
       ELSE last' = Called("getDependencies", id, Ok,
                           Some(SelectSeq(tasks[id].dependencies,
                                          LAMBDA depId : depId \in DOMAIN tasks)))
    /\ plan' = NoPlan
    /\ UNCHANGED << tasks, nextId, completions, now, config, calls >>

\* TaskService.reopen
Reopen(id) ==
    /\ IF id \notin DOMAIN tasks
       THEN /\ last' = Called("reopen", id, Err("Task not found", id), None)
            /\ UNCHANGED tasks
       ELSE /\ tasks' = UpdateTask(tasks, id, [ NoUpdate EXCEPT !.status = Some("open") ], now)
            /\ last' = Called("reopen", id, Ok, None)
    /\ plan' = NoPlan
    /\ UNCHANGED << nextId, completions, now, config, calls >>

(***************************************************************************)
(* The lifecycle specification: create, update, delete, complete, reopen   *)
(***************************************************************************)
\* hour h, minute m of day d (d = 0 is 2024-01-01)
Instant(d, h, m) == Days(d) + h * 60 + m

NoCall == [ op |-> "none", id |-> 0, err |-> "ok", errId |-> 0, val |-> None,
            at |-> None ]

\* the state after construction: an empty store
Init ==
    /\ tasks = [ k \in {} |-> 0 ]
    /\ nextId = 1
    /\ completions = [ k \in {} |-> 0 ]
    /\ now = Instant(14, 9, 0)
    /\ config = DefaultConfig
    /\ last = NoCall
    /\ plan = NoPlan
    /\ calls = << >>

\* ids a caller may name: every id handed out, and one never handed out
ArgIds(maxTasks) == 1..(maxTasks + 1)

\* dependency lists of at most maxLen ids
DepLists(maxTasks, maxLen) == UNION { [1..n -> ArgIds(maxTasks)] : n \in 0..maxLen }

DailyCalendar == Pattern("calendar", "daily")

LifeIds == ArgIds(MaxLifeTasks)

LifeInputs ==
    { [ NoInput EXCEPT !.dependencies = d, !.recurrence_pattern = r ] :
        d \in {None} \cup { Some(l) : l \in DepLists(MaxLifeTasks, 1) },
        r \in { None, Some(DailyCalendar) } }

LifeUpdates ==
    { [ NoUpdate EXCEPT !.dependencies = Some(l) ] : l \in DepLists(MaxLifeTasks, 1) }
    \cup { [ NoUpdate EXCEPT !.status = Some(st) ] : st \in AllStatuses }
    \cup { [ NoUpdate EXCEPT !.recurrence_pattern = Some(DailyCalendar) ] }

LifeTimes == { Instant(14, 10, 30) }

Next ==
    \/ \E input \in LifeInputs : nextId <= MaxLifeTasks /\ Create(input)
    \/ \E id \in LifeIds, updates \in LifeUpdates : Update(id, updates)
    \/ \E id \in LifeIds : Delete(id)
    \/ \E id \in LifeIds, t \in LifeTimes : Complete(id, t)
    \/ \E id \in LifeIds : Reopen(id)
    \/ \E id \in LifeIds : CalculatePriority(id, None)
    \/ \E id \in LifeIds : GetDependencies(id)

Spec == Init /\ [][Next]_vars

(***************************************************************************)
(* The dependency specification: create, update and delete with            *)
(* dependency lists of up to MaxDeps ids over MaxTasks tasks               *)
(***************************************************************************)
DepIds == ArgIds(MaxTasks)

DepInputs ==
    { [ NoInput EXCEPT !.dependencies = d ] :
        d \in {None} \cup { Some(l) : l \in DepLists(MaxTasks, MaxDeps) } }

DepUpdates ==
    { [ NoUpdate EXCEPT !.dependencies = Some(l) ] : l \in DepLists(MaxTasks, MaxDeps) }

NextDeps ==
    \/ \E input \in DepInputs : nextId <= MaxTasks /\ Create(input)
    \/ \E id \in DepIds, updates \in DepUpdates : Update(id, updates)
    \/ \E id \in DepIds : Delete(id)

SpecDeps == Init /\ [][NextDeps]_vars

(***************************************************************************)
(* Properties of the dependency graph                                      *)
(***************************************************************************)
\* every id reachable from the set S along stored dependency edges, S included
RECURSIVE Closure(_, _)
Closure(T, S) ==
    LET step == S \cup UNION { SeqToSet(T[k].dependencies) : k \in S \cap DOMAIN T }
    IN  IF step = S THEN S ELSE Closure(T, step)

DependsOn(T, dependencies) == Closure(T, SeqToSet(dependencies))

Acyclic(T) == \A id \in DOMAIN T : id \notin DependsOn(T, T[id].dependencies)

NoDangling(T) == \A id \in DOMAIN T : SeqToSet(T[id].dependencies) \subseteq DOMAIN T

AllStored(T, dependencies) == SeqToSet(dependencies) \subseteq DOMAIN T

StoreUnchanged == UNCHANGED << tasks, nextId, completions >>

\* C1 as stated: the dependency graph has no cycle, and every update(X, D)
\* of a stored task X in which X is in D or reachable from D fails with
\* 'Circular dependency detected' and changes nothing.
C1_Original ==
    [][ /\ Acyclic(tasks')
        /\ \A updates \in DepUpdates :
             ( /\ last'.op = "update"
               /\ Update(last'.id, updates)
               /\ last'.id \in DOMAIN tasks
               /\ last'.id \in DependsOn(tasks, Get(updates.dependencies)) )
             => /\ last'.err = "Circular dependency detected"
                /\ StoreUnchanged ]_vars

\* C1 as amended: the dependency graph has no cycle after any create, update
\* or delete; an update(X, D) in which X is in D or reachable from D fails and
\* changes nothing, with 'Circular dependency detected' when every id of D is
\* stored and with 'Dependency task <id> not found' otherwise (existence is
\* checked first).
C1_AcyclicCircularRejected ==
    [][ /\ Acyclic(tasks')
        /\ \A updates \in DepUpdates :
             ( /\ last'.op = "update"
               /\ Update(last'.id, updates)
               /\ last'.id \in DependsOn(tasks, Get(updates.dependencies)) )
             => /\ StoreUnchanged
                /\ last'.err = IF AllStored(tasks, Get(updates.dependencies))
                               THEN "Circular dependency detected"
                               ELSE "Dependency task not found" ]_vars

\* an update of the last task of a chain a -> b -> c was refused as circular
C1_Witness ==
    /\ last.op = "update"
    /\ last.err = "Circular dependency detected"
    /\ \E a, b \in DOMAIN tasks :
         /\ Cardinality({a, b, last.id}) = 3
         /\ b \in SeqToSet(tasks[a].dependencies)
         /\ last.id \in SeqToSet(tasks[b].dependencies)
         /\ tasks[last.id].dependencies = << >>

\* C2: no stored task lists a dependency id that is not stored, and a create
\* or update whose dependency list names an id that is not stored fails with
\* 'Dependency task <id> not found' (<id> the first such id) and changes
\* nothing in the store.
C2_NoDanglingMissingRejected ==
    [][ /\ NoDangling(tasks')
        /\ \A input \in DepInputs :
             ( /\ last'.op = "create"
               /\ nextId <= MaxTasks
               /\ Create(input)
               /\ GivesDependencies(input)
               /\ ~AllStored(tasks, Get(input.dependencies)) )
             => /\ StoreUnchanged
                /\ last'.err = "Dependency task not found"
                /\ Some(last'.errId) = FirstMissing(tasks, Get(input.dependencies), 1)
        /\ \A updates \in DepUpdates :
             ( /\ last'.op = "update"
               /\ Update(last'.id, updates)
               /\ ~AllStored(tasks, Get(updates.dependencies)) )
             => /\ StoreUnchanged
                /\ last'.err = "Dependency task not found"
                /\ Some(last'.errId) = FirstMissing(tasks, Get(updates.dependencies), 1)
      ]_vars

\* an update of a task that has dependencies was refused for a missing id
C2_Witness ==
    /\ last.op = "update"
    /\ last.err = "Dependency task not found"
    /\ last.errId \notin DOMAIN tasks
    /\ last.id \in DOMAIN tasks
    /\ Len(tasks[last.id].dependencies) = MaxDeps

(***************************************************************************)
(* Properties of the lifecycle                                             *)
(***************************************************************************)
IsRecurring(T, id) == id \in DOMAIN T /\ IsSome(T[id].recurrence_pattern)

IsCompleted(T, id) == id \in DOMAIN T /\ T[id].status = "completed"

\* C3: delete(id) fails with 'Cannot delete task' whenever another stored
\* task, of any status, lists id in its dependencies, and then the store is
\* unchanged and get(id) still returns the task; when no stored task lists id,
\* delete removes the task and get(id) returns null.
C3_DeleteRefusedWhileDependedOn ==
    [][ \A id \in LifeIds :
          (last'.op = "delete" /\ last'.id = id /\ Delete(id))
          => /\ (\E k \in DOMAIN tasks \ {id} : id \in SeqToSet(tasks[k].dependencies))
                => /\ last'.err = "Cannot delete task"
                   /\ StoreUnchanged
                   /\ IsSome(GetTask(tasks, id))
                   /\ GetTask(tasks', id) = GetTask(tasks, id)
             /\ (\A k \in DOMAIN tasks : id \notin SeqToSet(tasks[k].dependencies))
                => /\ last'.err = "ok"
                   /\ GetTask(tasks', id) = None
                   /\ \A k \in DOMAIN tasks \ {id} : GetTask(tasks', k) = GetTask(tasks, k)
      ]_vars

\* a delete was refused although the only dependent is Completed
C3_Witness ==
    /\ last.op = "delete"
    /\ last.err = "Cannot delete task"
    /\ last.id \in DOMAIN tasks
    /\ \E k \in DOMAIN tasks : last.id \in SeqToSet(tasks[k].dependencies)
    /\ \A k \in DOMAIN tasks :
         last.id \in SeqToSet(tasks[k].dependencies) => tasks[k].status = "completed"

\* C5: complete(id, completedAt) on a task without a recurrence pattern sets
\* status = Completed and last_completed_at = completedAt and leaves
\* next_due_at unset; reopen(id) sets the status back to Open.
C5_OneTimeCompleteThenReopen ==
    [][ /\ \A id \in LifeIds, t \in LifeTimes :
             ( /\ last'.op = "complete" /\ last'.id = id
               /\ Complete(id, t)
               /\ id \in DOMAIN tasks
               /\ ~IsRecurring(tasks, id) )
             => /\ last'.err = "ok"
                /\ tasks'[id].status = "completed"
                /\ tasks'[id].last_completed_at = Some(t)
                /\ tasks'[id].next_due_at = None
        /\ \A id \in LifeIds :
             ( /\ last'.op = "reopen" /\ last'.id = id
               /\ Reopen(id)
               /\ id \in DOMAIN tasks )
             => /\ last'.err = "ok"
                /\ tasks'[id].status = "open"
                /\ tasks'[id].last_completed_at = tasks[id].last_completed_at
      ]_vars

\* a one-time task that was completed has been reopened
C5_Witness ==
    /\ last.op = "reopen"
    /\ last.err = "ok"
    /\ last.id \in DOMAIN tasks
    /\ ~IsRecurring(tasks, last.id)
    /\ IsSome(tasks[last.id].last_completed_at)
    /\ tasks[last.id].status = "open"
    /\ completions[last.id] > 0

\* C6 as stated: no stored task that has a recurrence pattern has status
\* Completed.
C6_Original ==
    \A id \in DOMAIN tasks : ~(IsRecurring(tasks, id) /\ IsCompleted(tasks, id))

\* C6 as amended: complete leaves a recurring task Open, and create, complete,
\* reopen and delete never bring a task with a recurrence pattern to status
\* Completed; only update does (a status patch of Completed, or a recurrence
\* pattern given to a Completed task).
C6_RecurringCompletedOnlyByUpdate ==
    [][ /\ \A id \in LifeIds, t \in LifeTimes :
             ( /\ last'.op = "complete" /\ last'.id = id
               /\ Complete(id, t)
               /\ IsRecurring(tasks, id) )
             => tasks'[id].status = "open"
        /\ \A id \in DOMAIN tasks' :
             ( /\ IsRecurring(tasks', id) /\ IsCompleted(tasks', id)
               /\ ~(IsRecurring(tasks, id) /\ IsCompleted(tasks, id)) )
             => last'.op = "update" /\ last'.id = id
      ]_vars

\* an update marked Completed a recurring task that complete had left Open
C6_Witness ==
    /\ last.op = "update"
    /\ last.err = "ok"
    /\ IsRecurring(tasks, last.id)
    /\ IsCompleted(tasks, last.id)
    /\ IsSome(tasks[last.id].next_due_at)
    /\ completions[last.id] > 0

(***************************************************************************)
(* The recurrence specification: one recurring task of any pattern shape,  *)
(* created at one of two clock readings and completed at any of DueTimes   *)
(***************************************************************************)
\* the wall clock moves on to t
Tick(t) ==
    /\ t > now
    /\ now' = t
    /\ UNCHANGED << tasks, nextId, completions, config, last, plan, calls >>

Modes == { "calendar", "completion" }

DueAnchors == { None, Some(Instant(0, 8, 0)), Some(Instant(40, 12, 0)) }

WeeklyPatterns(mode) ==
    { [ Pattern(mode, "weekly") EXCEPT !.dayOfWeek = d, !.daysOfWeek = s ] :
        d \in {None} \cup { Some(k) : k \in 0..6 },
        s \in { None, Some(<< >>), Some(<< 0 >>), Some(<< 1, 3 >>), Some(<< 6, 2, 4 >>) } }

IntervalPatterns(mode) ==
    { [ Pattern(mode, "interval") EXCEPT !.interval = i, !.unit = u, !.anchor = a ] :
        i \in { None, Some(0), Some(1), Some(2) },
        u \in { None, Some("days"), Some("weeks"), Some("months") },
        a \in DueAnchors }

DuePatterns ==
    UNION { { Pattern(mode, "daily"), Pattern(mode, "monthly") }
            \cup WeeklyPatterns(mode) \cup IntervalPatterns(mode) : mode \in Modes }

DueInputs == { [ NoInput EXCEPT !.recurrence_pattern = Some(p) ] : p \in DuePatterns }

\* a whole week, the ends of January, February and December, three times a day
DueDays == 14..20 \cup { 30, 59, 365 }

DueTimes == { Instant(d, 0, 0) + m : d \in DueDays, m \in { 0, 630, MinPerDay - 1 } }

NextDue ==
    \/ Tick(Instant(45, 23, 30))
    \/ \E input \in DueInputs : DOMAIN tasks = {} /\ Create(input)
    \/ \E id \in DOMAIN tasks, t \in DueTimes : Complete(id, t)

SpecDue == Init /\ [][NextDue]_vars

\* C4: after complete(id, completedAt) on a recurring task, whatever the shape
\* of its pattern, the task has status Open, last_completed_at = completedAt
\* and next_due_at strictly later than completedAt.
C4_RecurringCompleteSetsLaterDue ==
    ( /\ last.op = "complete"
      /\ last.err = "ok"
      /\ IsRecurring(tasks, last.id) )
    => /\ tasks[last.id].status = "open"
       /\ tasks[last.id].last_completed_at = last.val
       /\ IsSome(tasks[last.id].next_due_at)
       /\ Get(tasks[last.id].next_due_at) > Get(last.val)

\* a weekly task was completed on its own weekday, late in the evening
C4_Witness ==
    /\ last.op = "complete"
    /\ last.err = "ok"
    /\ IsRecurring(tasks, last.id)
    /\ LET p == Get(tasks[last.id].recurrence_pattern) IN
         /\ p.mode = "calendar"
         /\ p.type = "weekly"
         /\ p.daysOfWeek = None
         /\ p.dayOfWeek = Some(GetDay(Get(last.val)))
    /\ MinuteOfDay(Get(last.val)) = MinPerDay - 1
    /\ Get(tasks[last.id].next_due_at) = StartOfDay(Get(last.val)) + Days(7)

(***************************************************************************)
(* The priority specification: tasks with windows, curves, deadlines and   *)
(* dependencies are created, completed, reopened, updated and removed,     *)
(* and calculatePriority is asked about them                               *)
(***************************************************************************)
\* tasks ever created in one run of the priority specification
MaxPrioTasks == 2

PrioIds == ArgIds(MaxPrioTasks)

\* no window, a window within the day, a window that crosses midnight
PrioWindows ==
    { << None, None >>,
      << Some(<< 9, 0 >>), Some(<< 17, 0 >>) >>,
      << Some(<< 22, 0 >>), Some(<< 6, 0 >>) >> }

\* the default curve, an exponential curve, a hard window with and without
\* its dates, a blocked curve
PrioCurves ==
    { None,
      Some([ NoCurve EXCEPT !.type = Some("exponential"), !.exponent = Some(2) ]),
      Some([ NoCurve EXCEPT !.type = Some("hard_window"),
                            !.window_start = Some(Instant(14, 0, 0)),
                            !.window_end = Some(Instant(18, 0, 0)) ]),
      Some([ NoCurve EXCEPT !.type = Some("hard_window") ]),
      Some([ NoCurve EXCEPT !.type = Some("blocked"), !.dependencies = Some(<< 1 >>) ]) }

PrioInputs ==
    { [ NoInput EXCEPT !.window_start = w[1], !.window_end = w[2],
                       !.curve_config = c, !.dependencies = d ] :
        w \in PrioWindows, c \in PrioCurves, d \in { None, Some(<< 1 >>) } }
    \cup { [ NoInput EXCEPT !.deadline = Some(Instant(16, 9, 0)),
                            !.curve_config = c, !.dependencies = d ] :
             c \in { None, Some([ NoCurve EXCEPT !.type = Some("hard_window") ]) },
             d \in { None, Some(<< 1 >>) } }
    \cup { [ NoInput EXCEPT !.recurrence_pattern = Some(r) ] :
             r \in { DailyCalendar, Pattern("completion", "weekly") } }

\* a status patch that leaves a task neither Open nor Completed
PrioUpdates == { [ NoUpdate EXCEPT !.status = Some("in_progress") ] }

\* the instants priorities are evaluated at: before creation, at creation,
\* on and next to the bounds of the windows
EvalTimes ==
    { Instant(13, 12, 0), Instant(14, 9, 0), Instant(15, 17, 0), Instant(15, 17, 1),
      Instant(16, 8, 59), Instant(17, 6, 0), Instant(17, 6, 1), Instant(17, 22, 0) }

\* the datetime arguments of calculatePriority; None is new Date()
PrioCallTimes == { None, Some(Instant(15, 17, 0)), Some(Instant(17, 6, 0)) }

NextPrio ==
    \/ \E input \in PrioInputs : nextId <= MaxPrioTasks /\ Create(input)
    \/ \E id \in DOMAIN tasks, t \in LifeTimes : Complete(id, t)
    \/ \E id \in DOMAIN tasks : Reopen(id)
    \/ \E id \in DOMAIN tasks, updates \in PrioUpdates : Update(id, updates)
    \/ \E id \in DOMAIN tasks : DbDeleteTask(id)
    \/ \E id \in PrioIds, datetime \in PrioCallTimes : CalculatePriority(id, datetime)

SpecPrio == Init /\ [][NextPrio]_vars

\* some dependency of the stored task id is not stored or is not Completed
Unresolved(T, id) ==
    \E i \in 1..Len(T[id].dependencies) :
        \/ T[id].dependencies[i] \notin DOMAIN T
        \/ T[T[id].dependencies[i]].status # "completed"

\* C7: in every reachable store and at every evaluation instant, the priority
\* of a task with a dependency that is absent from the store or not Completed
\* is exactly 0, whatever its curve or window, also after a completed
\* dependency has been reopened; and that is what calculatePriority returns.
C7_UnresolvedDependencyZero ==
    /\ \A id \in DOMAIN tasks, t \in EvalTimes :
         Unresolved(tasks, id) => CalculateTaskPriority(tasks, tasks[id], t, now) = Zero
    /\ ( /\ last.op = "calculatePriority"
         /\ last.err = "ok"
         /\ last.id \in DOMAIN tasks
         /\ Unresolved(tasks, last.id) )
       => last.val = Some(Zero)

\* calculatePriority returned 0 for a task whose only dependency was completed
\* and then reopened, at an instant where its curve alone gives more than 0
C7_Witness ==
    /\ last.op = "calculatePriority"
    /\ last.err = "ok"
    /\ last.val = Some(Zero)
    /\ last.id \in DOMAIN tasks
    /\ LET task == tasks[last.id] IN
         /\ Len(task.dependencies) = 1
         /\ task.dependencies[1] \in DOMAIN tasks
         /\ tasks[task.dependencies[1]].status = "open"
         /\ IsSome(tasks[task.dependencies[1]].last_completed_at)
         /\ CurveOrLinear(tasks, task, Get(last.at), now) # Zero

HasWindow(task) == IsSome(task.window_start) /\ IsSome(task.window_end)

\* the minute-of-day of t is inside the window of the task: start <= m <= end,
\* or m >= start or m <= end when the window crosses midnight
InsideWindow(task, t) ==
    LET m == (t % MinPerDay)
        start == Get(task.window_start)[1] * 60 + Get(task.window_start)[2]
        end == Get(task.window_end)[1] * 60 + Get(task.window_end)[2]
    IN  IF start <= end THEN start <= m /\ m <= end
        ELSE m >= start \/ m <= end

\* C8 as stated: for a task with both window bounds the priority at t is
\* exactly 0 if and only if the minute-of-day of t is outside the window.
C8_Original ==
    \A id \in DOMAIN tasks, t \in EvalTimes :
        HasWindow(tasks[id])
        => ( CalculateTaskPriority(tasks, tasks[id], t, now) = Zero
             <=> ~InsideWindow(tasks[id], t) )

\* C8 as amended: for a task with both window bounds the priority at t is
\* exactly 0 when the minute-of-day of t is outside the window (bounds
\* inclusive; either side of midnight for a window that crosses it); inside
\* the window it is 0 when a dependency is unresolved and otherwise the value
\* of the task's curve (the linear fallback when the curve cannot be built),
\* which may itself be 0.
C8_WindowGatesPriority ==
    /\ \A id \in DOMAIN tasks, t \in EvalTimes :
         HasWindow(tasks[id])
         => CalculateTaskPriority(tasks, tasks[id], t, now) =
               IF ~InsideWindow(tasks[id], t) THEN Zero
               ELSE IF Len(tasks[id].dependencies) > 0 /\ Unresolved(tasks, id) THEN Zero
               ELSE CurveOrLinear(tasks, tasks[id], t, now)
    /\ ( /\ last.op = "calculatePriority"
         /\ last.err = "ok"
         /\ last.id \in DOMAIN tasks
         /\ HasWindow(tasks[last.id])
         /\ ~InsideWindow(tasks[last.id], Get(last.at)) )
       => last.val = Some(Zero)

\* calculatePriority returned more than 0 for a task whose window crosses
\* midnight, asked at the very minute the window ends
C8_Witness ==
    /\ last.op = "calculatePriority"
    /\ last.err = "ok"
    /\ last.id \in DOMAIN tasks
    /\ HasWindow(tasks[last.id])
    /\ Get(tasks[last.id].window_start) = << 22, 0 >>
    /\ Get(tasks[last.id].window_end) = << 6, 0 >>
    /\ MinuteOfDay(Get(last.at)) = 6 * 60
    /\ last.val # Some(Zero)

(***************************************************************************)
(* The planner specification: a planner of some configuration, tasks with  *)
(* estimates, windows and deadlines, and the plans planDay makes of them    *)
(***************************************************************************)
\* tasks ever created in one run of the planner specification
MaxPlanTasks == 4

\* the default configuration, and short work hours with a longer default
PlannerConfigs ==
    { NoPlannerConfig,
      [ workHoursStart |-> Some(<< 9, 10 >>), workHoursEnd |-> Some(<< 9, 40 >>),
        defaultEstimateMinutes |-> Some(45) ] }

\* the state after construction of a planner over an empty store
InitPlan ==
    /\ tasks = [ k \in {} |-> 0 ]
    /\ nextId = 1
    /\ completions = [ k \in {} |-> 0 ]
    /\ now = Instant(14, 9, 0)
    /\ config \in { NewPlanner(partial) : partial \in PlannerConfigs }
    /\ last = NoCall
    /\ plan = NoPlan
    /\ calls = << >>

\* no estimate, an estimate of 0, an estimate of 30; a window inside the
\* default work hours, a window that crosses midnight; a deadline
PlanInputs ==
    { NoInput,
      [ NoInput EXCEPT !.estimate_minutes = Some(0) ],
      [ NoInput EXCEPT !.estimate_minutes = Some(30) ],
      [ NoInput EXCEPT !.estimate_minutes = Some(30),
                       !.window_start = Some(<< 9, 0 >>),
                       !.window_end = Some(<< 9, 45 >>) ],
      [ NoInput EXCEPT !.window_start = Some(<< 22, 0 >>),
                       !.window_end = Some(<< 10, 0 >>) ],
      [ NoInput EXCEPT !.deadline = Some(Instant(15, 18, 0)) ] }

\* the calls of planDay: date, limit, includeTimeBlocks (None: left out)
PlanCalls ==
    { << Instant(20, 0, 0), None, None >>,
      << Instant(20, 0, 0), Some(2), None >>,
      << Instant(15, 13, 0), None, None >>,
      << Instant(20, 0, 0), None, Some(FALSE) >> }

\* no stored task was created at the present reading of the clock
FreshInstant == \A k \in DOMAIN tasks : tasks[k].created_at # now

\* tasks are created a minute apart, so that no two rows tie on created_at
NextPlan ==
    \/ ~FreshInstant /\ Tick(now + 1)
    \/ \E input \in PlanInputs : nextId <= MaxPlanTasks /\ FreshInstant /\ Create(input)
    \/ \E call \in PlanCalls : PlanDay(call[1], call[2], call[3])

SpecPlan == InitPlan /\ [][NextPlan]_vars

\* planDay was the last call and made time blocks
PlannedBlocks ==
    /\ last.op = "planDay"
    /\ Get(last.val).includeTimeBlocks

SlotStart(s) == ParseTime(s.slot.start)

SlotEnd(s) == ParseTime(s.slot.end)

\* two half-open minute intervals [s1, e1) and [s2, e2) share a minute
Overlap(s1, e1, s2, e2) == s1 < e2 /\ s2 < e1 /\ s1 < e1 /\ s2 < e2

\* C9 as stated: in every plan planDay returns with includeTimeBlocks = true
\* the scheduled slots are pairwise non-overlapping as half-open minute
\* intervals.
C9_Original ==
    PlannedBlocks
    => \A i, j \in 1..Len(plan.scheduled) :
         i # j => ~Overlap(SlotStart(plan.scheduled[i]), SlotEnd(plan.scheduled[i]),
                           SlotStart(plan.scheduled[j]), SlotEnd(plan.scheduled[j]))

\* C10: in every plan planDay returns with includeTimeBlocks = true each
\* scheduled slot starts no earlier than work start and ends no later than
\* work end, is as long as the task's estimate (the default estimate when
\* the task has none), and lies within the task's window when it has one.
C10_SlotsWithinWorkHoursAndWindow ==
    PlannedBlocks
    => \A i \in 1..Len(plan.scheduled) :
         LET s == plan.scheduled[i]
             task == s.task.task
         IN  /\ ParseTime(config.workHoursStart) <= SlotStart(s)
             /\ SlotEnd(s) <= ParseTime(config.workHoursEnd)
             /\ SlotEnd(s) - SlotStart(s) =
                    IF IsSome(task.estimate_minutes) THEN Get(task.estimate_minutes)
                    ELSE config.defaultEstimateMinutes
             /\ (IsSome(task.window_start) /\ IsSome(task.window_end))
                => /\ ParseTime(Get(task.window_start)) <= SlotStart(s)
                   /\ SlotEnd(s) <= ParseTime(Get(task.window_end))

\* a plan in which a windowed task sits at the start of its window, a task
\* without an estimate got the default length, and a second windowed task did
\* not fit
C10_Witness ==
    /\ PlannedBlocks
    /\ \E i, j \in 1..Len(plan.scheduled) :
         /\ IsSome(plan.scheduled[i].task.task.window_start)
         /\ SlotStart(plan.scheduled[i]) = 9 * 60
         /\ SlotStart(plan.scheduled[i]) > ParseTime(config.workHoursStart)
         /\ ~IsSome(plan.scheduled[j].task.task.estimate_minutes)
         /\ SlotEnd(plan.scheduled[j]) - SlotStart(plan.scheduled[j]) =
                config.defaultEstimateMinutes
    /\ \E k \in 1..Len(plan.unscheduled) :
         /\ plan.unscheduled[k].reason = "does not fit"
         /\ IsSome(plan.unscheduled[k].task.task.window_start)

\* planDay was the last call and listed the tasks without time blocks
PlannedList ==
    /\ last.op = "planDay"
    /\ ~Get(last.val).includeTimeBlocks

\* the estimates of the first n scheduled entries added up: the task's own
\* estimate, or the planner's default when the task has none
RECURSIVE SumOfEstimates(_, _)
SumOfEstimates(scheduled, n) ==
    IF n = 0 THEN 0
    ELSE SumOfEstimates(scheduled, n - 1)
         + (IF IsSome(scheduled[n].task.task.estimate_minutes)
            THEN Get(scheduled[n].task.task.estimate_minutes)
            ELSE config.defaultEstimateMinutes)

WorkMinutes == ParseTime(config.workHoursEnd) - ParseTime(config.workHoursStart)

\* C11 as stated: in every plan planDay returns with includeTimeBlocks = true
\* totalScheduledMinutes is the sum of the scheduled estimates and is at most
\* workEnd - workStart, and remainingMinutes is the difference of the two and
\* is never negative.
C11_Original ==
    PlannedBlocks
    => /\ plan.totalScheduledMinutes = SumOfEstimates(plan.scheduled, Len(plan.scheduled))
       /\ plan.totalScheduledMinutes <= WorkMinutes
       /\ plan.remainingMinutes = WorkMinutes - plan.totalScheduledMinutes
       /\ plan.remainingMinutes >= 0

\* C12 as stated: in every plan planDay returns with includeTimeBlocks = false
\* totalScheduledMinutes is at most workEnd - workStart and remainingMinutes
\* is not negative.
C12_Original ==
    PlannedList
    => /\ plan.totalScheduledMinutes <= WorkMinutes
       /\ plan.remainingMinutes >= 0

(***************************************************************************)
(* The selection specification: a planner over tasks with dependencies and *)
(* windows, some of them completed, asked for plans of every limit in both *)
(* modes                                                                   *)
(***************************************************************************)
\* tasks ever created in one run of the selection specification
MaxSelectTasks == 3

\* the default configuration, and work hours that start after 9 AM
SelectConfigs ==
    { NoPlannerConfig,
      [ NoPlannerConfig EXCEPT !.workHoursStart = Some(<< 10, 30 >>),
                               !.workHoursEnd = Some(<< 16, 0 >>) ] }

InitSelect ==
    /\ tasks = [ k \in {} |-> 0 ]
    /\ nextId = 1
    /\ completions = [ k \in {} |-> 0 ]
    /\ now = Instant(14, 9, 0)
    /\ config \in { NewPlanner(partial) : partial \in SelectConfigs }
    /\ last = NoCall
    /\ plan = NoPlan
    /\ calls = << >>

\* a plain task, a task that depends on task 1, a window inside the work
\* hours that holds 10:30 but not 9 AM, and a window that holds 9 AM but not
\* 10:30
SelectInputs ==
    { NoInput,
      [ NoInput EXCEPT !.dependencies = Some(<< 1 >>) ],
      [ NoInput EXCEPT !.window_start = Some(<< 10, 0 >>),
                       !.window_end = Some(<< 11, 0 >>) ],
      [ NoInput EXCEPT !.window_start = Some(<< 9, 0 >>),
                       !.window_end = Some(<< 9, 45 >>) ] }

SelectLimits == { None, Some(0), Some(1), Some(2) }

\* the calls of planDay: date, limit, includeTimeBlocks (None: left out)
SelectCalls ==
    { << Instant(20, 0, 0), limit, mode >> :
        limit \in SelectLimits, mode \in { None, Some(FALSE) } }

NextSelect ==
    \/ ~FreshInstant /\ Tick(now + 1)
    \/ \E input \in SelectInputs : nextId <= MaxSelectTasks /\ FreshInstant /\ Create(input)
    \/ \E id \in DOMAIN tasks : Complete(id, now)
    \/ \E call \in SelectCalls : PlanDay(call[1], call[2], call[3])

SpecSelect == InitSelect /\ [][NextSelect]_vars

\* the tasks of a plan, scheduled and unscheduled
Planned == { plan.scheduled[i].task.task : i \in 1..Len(plan.scheduled) }
           \cup { plan.unscheduled[i].task.task : i \in 1..Len(plan.unscheduled) }

\* the instant planDay evaluates priorities at for a plan of the given date
EvaluationInstant(date) ==
    (date - (date % MinPerDay))
    + (IF config.workHoursStart[1] > 9 THEN config.workHoursStart[1] ELSE 9) * 60
    + config.workHoursStart[2]

\* C13: no plan of planDay, in either mode, holds as scheduled or unscheduled
\* a task that has a dependency not Completed, or a window that does not
\* contain the priority-evaluation instant (the plan date at hour
\* max(workStartHour, 9), minute workStartMinute).
C13_BlockedAndOutsideWindowLeftOut ==
    last.op = "planDay"
    => \A task \in Planned :
         /\ task.id \in DOMAIN tasks
         /\ ~Unresolved(tasks, task.id)
         /\ HasWindow(task) => InsideWindow(task, EvaluationInstant(Get(last.at)))

\* a plan that leaves out a task with an open dependency and a task whose
\* window lies inside the work hours but does not hold the evaluation
\* instant, and holds another task
C13_Witness ==
    /\ last.op = "planDay"
    /\ \E id \in DOMAIN tasks :
         /\ tasks[id].status = "open"
         /\ Unresolved(tasks, id)
         /\ tasks[id] \notin Planned
    /\ \E id \in DOMAIN tasks :
         /\ tasks[id].status = "open"
         /\ HasWindow(tasks[id])
         /\ ~InsideWindow(tasks[id], EvaluationInstant(Get(last.at)))
         /\ ParseTime(config.workHoursStart) <= ParseTime(Get(tasks[id].window_start))
         /\ ParseTime(Get(tasks[id].window_end)) <= ParseTime(config.workHoursEnd)
         /\ tasks[id] \notin Planned
    /\ Planned # {}

\* C14: for every limit >= 0 and in both modes the number of scheduled
\* entries of a plan does not exceed the limit (8 when none is given).
C14_ScheduledWithinLimit ==
    last.op = "planDay" => Len(plan.scheduled) <= Get(last.val).limit

\* a plan of limit 2 with two scheduled entries out of three actionable tasks
C14_Witness ==
    /\ last.op = "planDay"
    /\ Get(last.val).limit = 2
    /\ Len(plan.scheduled) = 2
    /\ Cardinality({ id \in DOMAIN tasks : tasks[id].status = "open"
                                           /\ ~HasWindow(tasks[id])
                                           /\ ~Unresolved(tasks, id) }) = 3

(***************************************************************************)
(* The ranking specification: tasks whose curve can and cannot be built,   *)
(* with deadlines after and before their creation, are created a minute    *)
(* apart, given any status, and asked about by calculatePriority and       *)
(* getByPriority                                                           *)
(***************************************************************************)
\* tasks ever created in one run of the ranking specification
MaxRankTasks == 2

RankIds == ArgIds(MaxRankTasks)

\* curve configurations CurveFactory.create throws on: a hard window without
\* its dates, a hard window of priority 3, a linear curve whose deadline is
\* not after its start, an exponent of 6, a blocked curve without
\* dependencies, an accumulator without recurrence, a type it does not know
FailingCurves ==
    { [ NoCurve EXCEPT !.type = Some("hard_window") ],
      [ NoCurve EXCEPT !.type = Some("hard_window"),
                       !.window_start = Some(Instant(14, 0, 0)),
                       !.window_end = Some(Instant(18, 0, 0)),
                       !.priority = Some(<< 3, 1 >>) ],
      [ NoCurve EXCEPT !.type = Some("linear"),
                       !.start_date = Some(Instant(15, 0, 0)),
                       !.deadline = Some(Instant(15, 0, 0)) ],
      [ NoCurve EXCEPT !.type = Some("exponential"), !.exponent = Some(6) ],
      [ NoCurve EXCEPT !.type = Some("blocked") ],
      [ NoCurve EXCEPT !.type = Some("accumulator") ],
      [ NoCurve EXCEPT !.type = Some("stepped") ] }

\* the deadlines of a task: none, two days after the first creation, a day
\* before it
RankDeadlines == { None, Some(Instant(16, 9, 0)), Some(Instant(13, 9, 0)) }

RankInputs ==
    { NoInput,
      [ NoInput EXCEPT !.curve_config =
            Some([ NoCurve EXCEPT !.type = Some("hard_window"),
                                  !.window_start = Some(Instant(14, 0, 0)),
                                  !.window_end = Some(Instant(18, 0, 0)) ]) ],
      [ NoInput EXCEPT !.curve_config = Some([ NoCurve EXCEPT !.type = Some("hard_window") ]),
                       !.window_start = Some(<< 22, 0 >>),
                       !.window_end = Some(<< 6, 0 >>) ] }
    \cup { [ NoInput EXCEPT !.curve_config = Some(c) ] : c \in FailingCurves }
    \cup { [ NoInput EXCEPT !.curve_config = Some([ NoCurve EXCEPT !.type = Some("hard_window") ]),
                            !.deadline = d ] : d \in RankDeadlines }

RankUpdates ==
    { [ NoUpdate EXCEPT !.status = Some(status) ] :
        status \in { "in_progress", "blocked", "completed" } }

\* the instants asked about: before the first creation, a day after it, after
\* the later deadline
RankTimes == { Instant(13, 12, 0), Instant(15, 17, 0), Instant(17, 6, 0) }

RankLimits == { None, Some(0), Some(1) }

NextRank ==
    \/ ~FreshInstant /\ Tick(now + 1)
    \/ \E input \in RankInputs : nextId <= MaxRankTasks /\ FreshInstant /\ Create(input)
    \/ \E id \in DOMAIN tasks, updates \in RankUpdates : Update(id, updates)
    \/ \E id \in RankIds, t \in RankTimes : CalculatePriority(id, Some(t))
    \/ \E limit \in RankLimits : ListByPriority(limit, Some(Instant(15, 17, 0)))

SpecRank == Init /\ [][NextRank]_vars

\* C15 as stated: getByPriority(limit, t) returns only Open and InProgress
\* tasks, in order of priority non-increasing, tasks of equal priority in
\* creation order descending, and at most limit tasks whenever a limit is
\* given.
C15_Original ==
    last.op = "getByPriority"
    => LET list == Get(last.val).list
           limit == Get(last.val).limit
       IN  /\ \A i \in 1..Len(list) : list[i].task.status \in { "open", "in_progress" }
           /\ \A i, j \in 1..Len(list) :
                i < j => /\ RLe(list[j].priority, list[i].priority)
                         /\ list[i].priority = list[j].priority
                            => list[i].task.created_at >= list[j].task.created_at
           /\ IsSome(limit) => Len(list) <= Get(limit)

\* C16 as stated: the priority of every stored task at every instant, as
\* calculatePriority and getByPriority give it, is not negative.
C16_Original ==
    /\ \A id \in DOMAIN tasks, t \in RankTimes :
         RLe(Zero, CalculateTaskPriority(tasks, tasks[id], t, now))
    /\ (last.op = "calculatePriority" /\ last.err = "ok") => RLe(Zero, Get(last.val))
    /\ last.op = "getByPriority"
       => \A i \in 1..Len(Get(last.val).list) : RLe(Zero, Get(last.val).list[i].priority)

\* CurveFactory.create throws on the stored curve configuration: a required
\* field is missing, the deadline is not after the start, the exponent or
\* the priority is out of range, or the type is unknown
CannotBeBuilt(cfg) ==
    LET type == Get(cfg.type) IN
    \/ type \notin { "linear", "exponential", "hard_window", "blocked", "accumulator" }
    \/ type = "hard_window" /\ (cfg.window_start = None \/ cfg.window_end = None)
    \/ type = "hard_window" /\ cfg.priority # None
                            /\ (Get(cfg.priority)[1] < 0
                                \/ Get(cfg.priority)[1] > 2 * Get(cfg.priority)[2])
    \/ type = "blocked" /\ (cfg.dependencies = None \/ Get(cfg.dependencies) = << >>)
    \/ type = "accumulator" /\ cfg.recurrence = None
    \/ type \in { "linear", "exponential" } /\ cfg.start_date # None /\ cfg.deadline # None
                                            /\ Get(cfg.deadline) <= Get(cfg.start_date)
    \/ type = "exponential" /\ cfg.exponent # None
                            /\ (Get(cfg.exponent) < 1 \/ Get(cfg.exponent) > 5)

\* the value at t of a linear curve that runs from start to end: 0 before
\* start, (t - start) / (end - start) up to end, 1 + (t - end) / (end - start)
\* after end
LinearValue(start, end, t) ==
    IF t < start THEN << 0, 1 >>
    ELSE IF t <= end THEN R(t - start, end - start)
    ELSE R((end - start) + (t - end), end - start)

\* C17: calculatePriority on a stored task raises no error; when the curve of
\* the stored curve_config cannot be built (and the task is neither blocked
\* by a dependency nor outside its window) it returns the value at t of a
\* linear curve from the task's created_at to its deadline, or to created_at
\* + 7 days when the task has no deadline.
C17_FailedCurveFallsBackToLinear ==
    ( /\ last.op = "calculatePriority"
      /\ last.id \in DOMAIN tasks )
    => /\ last.err = "ok"
       /\ LET task == tasks[last.id]
              t == Get(last.at)
          IN  ( /\ CannotBeBuilt(task.curve_config)
                /\ ~Unresolved(tasks, last.id)
                /\ HasWindow(task) => InsideWindow(task, t) )
              => last.val = Some(LinearValue(task.created_at,
                                             IF task.deadline # None
                                             THEN Get(task.deadline)
                                             ELSE task.created_at + 7 * MinPerDay,
                                             t))

\* calculatePriority was asked about a task with a deadline whose hard window
\* lacks its dates, at an instant after the deadline, and returned the
\* overdue value of the linear curve, more than 1
C17_Witness ==
    /\ last.op = "calculatePriority"
    /\ last.err = "ok"
    /\ last.id \in DOMAIN tasks
    /\ CannotBeBuilt(tasks[last.id].curve_config)
    /\ tasks[last.id].deadline # None
    /\ Get(tasks[last.id].deadline) > tasks[last.id].created_at
    /\ Get(last.at) > Get(tasks[last.id].deadline)
    /\ RLt(One, Get(last.val))

(***************************************************************************)
(* The curve configuration specification: tasks are created and updated    *)
(* with and without a recurrence pattern, a curve type and a recurrence in *)
(* the curve configuration                                                 *)
(***************************************************************************)
\* tasks ever created in one run of the curve configuration specification
MaxCurveTasks == 2

CurveIds == ArgIds(MaxCurveTasks)

WeeklyCompletion == Pattern("completion", "weekly")

\* Partial<CurveConfig>: left out, empty, a type alone, a recurrence alone,
\* a type with a recurrence
CurvePartials ==
    { None, Some(NoCurve),
      Some([ NoCurve EXCEPT !.type = Some("linear") ]),
      Some([ NoCurve EXCEPT !.type = Some("exponential") ]),
      Some([ NoCurve EXCEPT !.type = Some("accumulator") ]),
      Some([ NoCurve EXCEPT !.recurrence = Some(WeeklyCompletion) ]),
      Some([ NoCurve EXCEPT !.type = Some("accumulator"),
                            !.recurrence = Some(WeeklyCompletion) ]) }

CurveInputs ==
    { [ NoInput EXCEPT !.curve_config = c, !.recurrence_pattern = r ] :
        c \in CurvePartials, r \in { None, Some(DailyCalendar) } }

CurveUpdates ==
    { [ NoUpdate EXCEPT !.curve_config = c, !.recurrence_pattern = r ] :
        c \in CurvePartials, r \in { None, Some(DailyCalendar) } }
    \ { NoUpdate }

NextCurve ==
    \/ \E input \in CurveInputs : nextId <= MaxCurveTasks /\ Create(input)
    \/ \E id \in CurveIds, updates \in CurveUpdates : Update(id, updates)

SpecCurve == Init /\ [][NextCurve]_vars

\* the curve type the input of create names, if any
GivenType(input) ==
    IF input.curve_config = None THEN None ELSE Get(input.curve_config).type

\* the recurrence the curve configuration of the input of create names, if any
GivenRecurrence(input) ==
    IF input.curve_config = None THEN None ELSE Get(input.curve_config).recurrence

\* C18 as stated: the task create stores has status Open; its curve type is
\* the type given in curve_config when one is given; otherwise it is
\* Accumulator, with curve_config.recurrence set to the recurrence pattern
\* of the input, when the input has one, and Linear when it has none.
C18_Original ==
    [][ \A input \in CurveInputs :
          ( /\ last'.op = "create"
            /\ nextId <= MaxCurveTasks
            /\ Create(input) )
          => /\ last'.err = "ok"
             /\ tasks'[nextId].status = "open"
             /\ LET stored == tasks'[nextId].curve_config IN
                  IF GivenType(input) # None THEN stored.type = GivenType(input)
                  ELSE IF input.recurrence_pattern # None
                       THEN /\ stored.type = Some("accumulator")
                            /\ stored.recurrence = input.recurrence_pattern
                  ELSE stored.type = Some("linear")
      ]_vars

\* C18 as amended: the task create stores has status Open; its curve type is
\* the type given in curve_config when one is given; otherwise it is
\* Accumulator when the input has a recurrence pattern, with
\* curve_config.recurrence the recurrence given in curve_config if there is
\* one and the recurrence pattern of the input if not, and Linear when the
\* input has no recurrence pattern.
C18_CreateDefaultsCurveType ==
    [][ \A input \in CurveInputs :
          ( /\ last'.op = "create"
            /\ nextId <= MaxCurveTasks
            /\ Create(input) )
          => /\ last'.err = "ok"
             /\ tasks'[nextId].status = "open"
             /\ LET stored == tasks'[nextId].curve_config IN
                  IF GivenType(input) # None THEN stored.type = GivenType(input)
                  ELSE IF input.recurrence_pattern # None
                       THEN /\ stored.type = Some("accumulator")
                            /\ stored.recurrence =
                                   IF GivenRecurrence(input) # None
                                   THEN GivenRecurrence(input)
                                   ELSE input.recurrence_pattern
                  ELSE stored.type = Some("linear")
      ]_vars

\* create has stored a recurring task with the accumulator curve and the
\* recurrence pattern of the task in its curve configuration
C18_Witness ==
    /\ last.op = "create"
    /\ last.err = "ok"
    /\ tasks[last.id].status = "open"
    /\ tasks[last.id].recurrence_pattern = Some(DailyCalendar)
    /\ tasks[last.id].curve_config.type = Some("accumulator")
    /\ tasks[last.id].curve_config.recurrence = Some(DailyCalendar)

\* C19 as stated: in every state reached by create and update calls, every
\* stored task whose curve type is Accumulator has a recurrence pattern in
\* its curve_config.
C19_Original ==
    \A id \in DOMAIN tasks :
        tasks[id].curve_config.type = Some("accumulator")
        => tasks[id].curve_config.recurrence # None

\* C20: update (with a patch whose dependencies, if any, are all stored),
\* complete, reopen, calculatePriority and getDependencies, called with an id
\* that is not stored, fail with 'Task <id> not found' and leave the store
\* as it was: no task is created or changed, no completion is recorded.
C20_UnknownIdNotFound ==
    [][ \A id \in LifeIds :
          id \notin DOMAIN tasks
          => /\ \A updates \in LifeUpdates :
                  ( /\ last'.op = "update" /\ last'.id = id
                    /\ Update(id, updates)
                    /\ GivesDependencies(updates)
                       => AllStored(tasks, Get(updates.dependencies)) )
                  => /\ last'.err = "Task not found"
                     /\ last'.errId = id
                     /\ StoreUnchanged
             /\ \A t \in LifeTimes :
                  ( /\ last'.op = "complete" /\ last'.id = id
                    /\ Complete(id, t) )
                  => /\ last'.err = "Task not found"
                     /\ last'.errId = id
                     /\ StoreUnchanged
             /\ ( /\ last'.op \in { "reopen", "calculatePriority", "getDependencies" }
                  /\ last'.id = id
                  /\ \/ Reopen(id)
                     \/ CalculatePriority(id, None)
                     \/ GetDependencies(id) )
                => /\ last'.err = "Task not found"
                   /\ last'.errId = id
                   /\ StoreUnchanged
      ]_vars

\* update, its patch having passed the dependency check, was refused for an
\* id that is not stored, in a store that holds a task and no completion
C20_Witness ==
    /\ last.op = "update"
    /\ last.err = "Task not found"
    /\ last.id \notin DOMAIN tasks
    /\ last.errId = last.id
    /\ 1 \in DOMAIN tasks
    /\ \A id \in DOMAIN tasks : completions[id] = 0

(***************************************************************************)
(* First fit: the slot findAvailableSlot gives against the earliest start  *)
(* that is free                                                            *)
(***************************************************************************)
\* the range a task may be placed in: the work hours, cut to its window
AllowedRange(task) ==
    IF HasWindow(task)
    THEN RangeIntersection(ParseTime(config.workHoursStart), ParseTime(config.workHoursEnd),
                           ParseTime(Get(task.window_start)),
                           ParseTime(Get(task.window_end)))
    ELSE Some([ start |-> ParseTime(config.workHoursStart),
                end |-> ParseTime(config.workHoursEnd) ])

\* [s, s + estimate) lies in the allowed range and overlaps none of the
\* scheduled entries numbered in placed
FreeAt(s, estimate, allowed, placed) ==
    /\ allowed.start <= s
    /\ s + estimate <= allowed.end
    /\ \A j \in placed :
         ~Overlap(s, s + estimate, SlotStart(plan.scheduled[j]), SlotEnd(plan.scheduled[j]))

\* the starts that are free for a task of the given estimate
FreeStarts(estimate, allowed, placed) ==
    { s \in allowed.start..allowed.end : FreeAt(s, estimate, allowed, placed) }

\* the scheduled entries processed before an entry of priority p: the
\* entries are processed in descending priority
PlacedAbove(p) == { j \in 1..Len(plan.scheduled) : RLt(p, plan.scheduled[j].task.priority) }

\* C21 as stated: in a plan with time blocks every scheduled task has the
\* earliest start of its allowed range (work hours cut to its window) at
\* which its estimate overlaps no slot placed before it and ends inside the
\* range, and a task is unscheduled with reason "does not fit" only when no
\* such start exists.
C21_Original ==
    PlannedBlocks
    => /\ \A i \in 1..Len(plan.scheduled) :
            LET s == plan.scheduled[i]
                allowed == AllowedRange(s.task.task)
                free == FreeStarts(s.estimateMinutes, Get(allowed), 1..(i - 1))
            IN  /\ IsSome(allowed)
                /\ SlotStart(s) \in free
                /\ \A t \in free : SlotStart(s) <= t
       /\ \A k \in 1..Len(plan.unscheduled) :
            LET u == plan.unscheduled[k]
                allowed == AllowedRange(u.task.task)
            IN  u.reason = "does not fit"
                => /\ IsSome(allowed)
                   /\ FreeStarts(EstimateOf(u.task.task, config), Get(allowed),
                                 PlacedAbove(u.task.priority)) = {}

(***************************************************************************)
(* The pool specification: the default planner over tasks of low priority, *)
(* some of them actionable by a deadline or a window, one of them with a   *)
(* curve that cannot be built and a deadline before its creation, asked    *)
(* for plans of the day after and of six days after                        *)
(***************************************************************************)
\* tasks ever created in one run of the pool specification
MaxPoolTasks == 3

\* a plain task, a deadline on the day after the creation, a window that
\* holds 9 AM, and a hard_window curve without window dates on a task whose
\* deadline lies a day before its creation
PoolInputs ==
    { NoInput,
      [ NoInput EXCEPT !.deadline = Some(Instant(15, 18, 0)) ],
      [ NoInput EXCEPT !.window_start = Some(<< 8, 30 >>),
                       !.window_end = Some(<< 10, 0 >>) ],
      [ NoInput EXCEPT !.curve_config = Some([ NoCurve EXCEPT !.type = Some("hard_window") ]),
                       !.deadline = Some(Instant(13, 9, 0)) ] }

\* the calls of planDay: date, limit, includeTimeBlocks (None: left out)
PoolCalls ==
    { << date, limit, mode >> :
        date \in { Instant(15, 0, 0), Instant(20, 0, 0) },
        limit \in { None, Some(1) },
        mode \in { None, Some(FALSE) } }

NextPool ==
    \/ ~FreshInstant /\ Tick(now + 1)
    \/ \E input \in PoolInputs : nextId <= MaxPoolTasks /\ FreshInstant /\ Create(input)
    \/ \E call \in PoolCalls : PlanDay(call[1], call[2], call[3])

SpecPool == Init /\ [][NextPool]_vars

\* the entries of a plan, scheduled and unscheduled: a task with the
\* priority planDay computed for it
PlannedEntries ==
    { plan.scheduled[i].task : i \in 1..Len(plan.scheduled) }
    \cup { plan.unscheduled[i].task : i \in 1..Len(plan.unscheduled) }

\* the day of instant t is the day of the plan date or an earlier day
OnOrBefore(t, date) == DayIndex(t) <= DayIndex(date)

\* the task has a deadline, a next due date or a window that makes it
\* actionable on the plan date whatever its priority above 0
DueOrWindowed(task, date) ==
    \/ IsSome(task.deadline) /\ OnOrBefore(Get(task.deadline), date)
    \/ IsSome(task.next_due_at) /\ OnOrBefore(Get(task.next_due_at), date)
    \/ HasWindow(task)

\* C22 as stated: every task in scheduled or unscheduled of a plan has
\* priority > 0 at the priority-evaluation instant and a deadline on or
\* before the plan date, a next_due_at on or before the plan date, a window,
\* or priority > 0.3; a task with 0 < priority <= 0.3 and none of the first
\* three is in neither list.
C22_Original ==
    last.op = "planDay"
    => /\ \A e \in PlannedEntries :
            /\ e.priority = CalculateTaskPriority(tasks, e.task,
                                                  EvaluationInstant(Get(last.at)), now)
            /\ RLt(Zero, e.priority)
            /\ DueOrWindowed(e.task, Get(last.at)) \/ RLt(R(3, 10), e.priority)
       /\ \A id \in DOMAIN tasks :
            LET p == CalculateTaskPriority(tasks, tasks[id],
                                           EvaluationInstant(Get(last.at)), now)
            IN  (/\ RLt(Zero, p)
                 /\ RLe(p, R(3, 10))
                 /\ ~DueOrWindowed(tasks[id], Get(last.at)))
                => tasks[id] \notin Planned

\* C23 as stated: with includeTimeBlocks = false plan.scheduled is exactly
\* the first min(limit, n) tasks, in priority order, of the n actionable
\* tasks among all Open and InProgress tasks of the store.
C23_Original ==
    PlannedList
    => \E entries \in GetByPriority(tasks, None, EvaluationInstant(Get(last.at)), now) :
         LET actionable == FilterActionable(entries, Get(last.at))
             n == Min2(Get(last.val).limit, Len(actionable))
         IN  [ i \in 1..Len(plan.scheduled) |-> plan.scheduled[i].task ]
                 = SubSeq(actionable, 1, n)

\* the minute of the day m lies in the window: start <= m <= end, or, for a
\* window that crosses midnight, m >= start or m <= end
InWindowMinute(m, windowStart, windowEnd) ==
    IF ParseTime(windowStart) <= ParseTime(windowEnd)
    THEN ParseTime(windowStart) <= m /\ m <= ParseTime(windowEnd)
    ELSE m >= ParseTime(windowStart) \/ m <= ParseTime(windowEnd)

\* C24 as stated: the reason "window outside work hours" is given only to
\* tasks whose window shares no minute with the work hours, a window that
\* crosses midnight being read by the in_window rule.
C24_Original ==
    PlannedBlocks
    => \A k \in 1..Len(plan.unscheduled) :
         LET task == plan.unscheduled[k].task.task
         IN  plan.unscheduled[k].reason = "window outside work hours"
             => ~\E m \in ParseTime(config.workHoursStart)..(ParseTime(config.workHoursEnd) - 1) :
                   InWindowMinute(m, Get(task.window_start), Get(task.window_end))

(***************************************************************************)
(* The fault specification: tasks with a blocked curve, and calls of       *)
(* calculatePriority during which the store throws at the lookup inside    *)
(* BlockedCurve.calculate                                                  *)
(***************************************************************************)
\* tasks ever created in one run of the fault specification
MaxFaultTasks == 2

FaultIds == ArgIds(MaxFaultTasks)

\* a plain task, a blocked curve over task 1 on a task without dependencies
\* of its own, and the same on a task that depends on task 1
FaultInputs ==
    { NoInput,
      [ NoInput EXCEPT !.curve_config =
            Some([ NoCurve EXCEPT !.type = Some("blocked"), !.dependencies = Some(<< 1 >>) ]) ],
      [ NoInput EXCEPT !.curve_config =
            Some([ NoCurve EXCEPT !.type = Some("blocked"), !.dependencies = Some(<< 1 >>) ]),
                       !.dependencies = Some(<< 1 >>) ] }

\* calculateTaskPriority gets as far as BlockedCurve.calculate: the task's
\* own dependencies and window let it pass and CurveFactory.create builds a
\* blocked curve
ReachesBlockedCalculate(T, task, datetime, nowT) ==
    /\ Len(task.dependencies) > 0 => AllDependenciesComplete(T, task.dependencies)
    /\ (IsSome(task.window_start) /\ IsSome(task.window_end))
       => IsInTimeWindow(datetime, Get(task.window_start), Get(task.window_end))
    /\ Get(task.curve_config.type) = "blocked"
    /\ IsSome(CurveFactoryCreate(T, task.curve_config, Some(task), datetime, nowT))

\* calculatePriority(id, datetime) when dependencyChecker.getTask throws
\* inside BlockedCurve.allDependenciesComplete.  Where calculate is a native
\* async function isAsyncCurve holds, the rejection is awaited inside the
\* try block of calculateTaskPriority and its catch returns the linear
\* fallback; in a build that compiles async functions away isAsyncCurve
\* fails, the promise is returned without await and the rejection reaches
\* the caller.
CalculatePriorityLookupThrows(id, datetime) ==
    /\ id \in DOMAIN tasks
    /\ ReachesBlockedCalculate(tasks, tasks[id], OrElse(datetime, now), now)
    /\ \/ last' = [ Called("calculatePriority, lookup throws", id, Ok,
                           Some(CalculateLinearPriority(tasks[id], OrElse(datetime, now))))
                    EXCEPT !.at = Some(OrElse(datetime, now)) ]
       \/ last' = [ Called("calculatePriority, lookup throws", id,
                           Err("store lookup failed", id), None)
                    EXCEPT !.at = Some(OrElse(datetime, now)) ]
    /\ plan' = NoPlan
    /\ UNCHANGED << tasks, nextId, completions, now, config, calls >>

NextFault ==
    \/ \E input \in FaultInputs : nextId <= MaxFaultTasks /\ Create(input)
    \/ \E id \in DOMAIN tasks, t \in LifeTimes : Complete(id, t)
    \/ \E id \in FaultIds, datetime \in PrioCallTimes : CalculatePriority(id, datetime)
    \/ \E id \in FaultIds, datetime \in PrioCallTimes :
         CalculatePriorityLookupThrows(id, datetime)

SpecFault == Init /\ [][NextFault]_vars

\* C25 as stated: an error raised while evaluating an already constructed
\* curve, such as the store lookup inside BlockedCurve.calculate failing, is
\* not replaced by a fallback value but propagates to the caller of
\* calculatePriority.
C25_Original ==
    last.op = "calculatePriority, lookup throws" => last.err # "ok"

(***************************************************************************)
(* Asynchronous calls.  Every TaskService method is an async function and  *)
(* every store access in it is awaited, so calls that are in flight        *)
(* together take turns at their awaits.  A call in flight is a record with *)
(* its position pc; one step of it makes the store access it is waiting at *)
(* and runs the synchronous code up to the next one.                       *)
(***************************************************************************)
\* tasks ever created in one run of the asynchronous specification
MaxAsyncTasks == 3

\* asynchronous calls started in one run
MaxCalls == 2

\* a call as it is started; err is set when pc reaches "done"
NewCall(op, id, dependencies, pc) ==
    [ op |-> op, pc |-> pc, id |-> id, dependencies |-> dependencies,
      i |-> 1, j |-> 1, queue |-> << >>, visited |-> {}, current |-> 0,
      rows |-> << >>, entries |-> << >>, err |-> "" ]

\* the call has returned or thrown
Finish(c, err) == [ c EXCEPT !.pc = "done", !.err = err ]

\* a faulty walk that reads a task again each time its id is taken from
\* the queue
WalkToReadAgain(queue, visited, excludeTaskId) ==
    IF queue = << >>
    THEN [ pc |-> "passed", queue |-> queue, visited |-> visited, current |-> 0 ]
    ELSE IF Head(queue) = excludeTaskId
         THEN [ pc |-> "circular", queue |-> queue, visited |-> visited, current |-> 0 ]
    ELSE [ pc |-> "walk", queue |-> Tail(queue),
           visited |-> visited \cup { Head(queue) }, current |-> Head(queue) ]

\* the while loop of validateDependencies from the top of an iteration to
\* its next await: ids already visited are skipped, excludeTaskId at the
\* head of the queue throws, an empty queue ends the walk
RECURSIVE WalkToRead(_, _, _)
WalkToRead(queue, visited, excludeTaskId) ==
    IF queue = << >>
    THEN [ pc |-> "passed", queue |-> queue, visited |-> visited, current |-> 0 ]
    ELSE IF Head(queue) = excludeTaskId
         THEN [ pc |-> "circular", queue |-> queue, visited |-> visited, current |-> 0 ]
    ELSE IF Head(queue) \in visited THEN WalkToRead(Tail(queue), visited, excludeTaskId)
    ELSE [ pc |-> "walk", queue |-> Tail(queue),
           visited |-> visited \cup { Head(queue) }, current |-> Head(queue) ]

\* the call after the walk of validateDependencies has run to its next
\* await, thrown, or ended: update goes on to db.updateTask
AfterWalk(c, w) ==
    IF w.pc = "circular" THEN Finish(c, "Circular dependency detected")
    ELSE IF w.pc = "passed" THEN [ c EXCEPT !.pc = "write" ]
    ELSE [ c EXCEPT !.pc = "walk", !.queue = w.queue, !.visited = w.visited,
                    !.current = w.current ]

\* the call after db.getTask found dependency i: the next dependency, then
\* for create (no excludeTaskId) db.insertTask, for update the walk
AfterExists(c) ==
    IF c.i < Len(c.dependencies) THEN [ c EXCEPT !.i = c.i + 1 ]
    ELSE IF c.op = "create" THEN [ c EXCEPT !.pc = "insert" ]
    ELSE AfterWalk(c, WalkToRead(c.dependencies, {}, c.id))

\* one awaited db.getTask of validateDependencies and what follows it
ValidateStep(c, T) ==
    IF c.pc = "exists"
    THEN IF GetTask(T, c.dependencies[c.i]) = None
         THEN Finish(c, "Dependency task not found")
         ELSE AfterExists(c)
    ELSE LET task == GetTask(T, c.current)
             queue == c.queue \o (IF IsSome(task) THEN Get(task).dependencies ELSE << >>)
         IN  AfterWalk(c, WalkToRead(queue, c.visited, c.id))

\* the part of calculateTaskPriority behind the dependency check
PriorityUnblocked(T, task, datetime, nowT) ==
    IF /\ IsSome(task.window_start)
       /\ IsSome(task.window_end)
       /\ ~IsInTimeWindow(datetime, Get(task.window_start), Get(task.window_end))
    THEN Zero
    ELSE CurveOrLinear(T, task, datetime, nowT)

\* the for loop of getByPriority from row c.i up to the next db.getTask of
\* allDependenciesComplete: rows without dependencies get their priority
\* without a store access; behind the last row the list is sorted and
\* returned
RECURSIVE ToNextLookup(_, _, _, _)
ToNextLookup(c, T, datetime, nowT) ==
    IF c.i > Len(c.rows)
    THEN Finish([ c EXCEPT !.entries = SortByPriority(c.entries, Len(c.entries)) ], "ok")
    ELSE IF Len(c.rows[c.i].dependencies) > 0 THEN [ c EXCEPT !.pc = "dep", !.j = 1 ]
    ELSE ToNextLookup(
             [ c EXCEPT !.i = c.i + 1,
                        !.entries = Append(c.entries,
                            [ task |-> c.rows[c.i],
                              priority |-> PriorityUnblocked(T, c.rows[c.i], datetime, nowT) ]) ],
             T, datetime, nowT)

\* one awaited db.getTask of allDependenciesComplete for row c.i, dependency
\* c.j, and what follows it
LookupStep(c, T, datetime, nowT) ==
    LET task == c.rows[c.i]
        dep == GetTask(T, task.dependencies[c.j])
        entered(p) == [ c EXCEPT !.i = c.i + 1,
                                 !.entries = Append(c.entries,
                                                    [ task |-> task, priority |-> p ]) ]
    IN  IF dep = None \/ Get(dep).status # "completed"
        THEN ToNextLookup(entered(Zero), T, datetime, nowT)
        ELSE IF c.j < Len(task.dependencies) THEN [ c EXCEPT !.j = c.j + 1 ]
        ELSE ToNextLookup(entered(PriorityUnblocked(T, task, datetime, nowT)),
                          T, datetime, nowT)

\* the instant the asynchronous getByPriority is asked about
AsyncEvalTime == Instant(15, 9, 0)

\* a call is started: it takes its place among the calls in flight
Start(c) ==
    /\ Len(calls) < MaxCalls
    /\ calls' = Append(calls, c)
    /\ UNCHANGED << tasks, nextId, completions, now, config, last, plan >>

\* create or update at an await of validateDependencies
StepValidate(n) ==
    /\ calls[n].pc \in { "exists", "walk" }
    /\ calls' = [ calls EXCEPT ![n] = ValidateStep(calls[n], tasks) ]
    /\ UNCHANGED << tasks, nextId, completions, now, config, last, plan >>

\* update at await this.db.updateTask(id, updates)
StepUpdateWrite(n) ==
    /\ calls[n].op = "update"
    /\ calls[n].pc = "write"
    /\ IF calls[n].id \notin DOMAIN tasks
       THEN /\ calls' = [ calls EXCEPT ![n] = Finish(@, "Task not found") ]
            /\ UNCHANGED tasks
       ELSE /\ tasks' = UpdateTask(tasks, calls[n].id,
                                   [ NoUpdate EXCEPT
                                       !.dependencies = Some(calls[n].dependencies) ],
                                   now)
            /\ calls' = [ calls EXCEPT ![n].pc = "read" ]
    /\ UNCHANGED << nextId, completions, now, config, last, plan >>

\* create at await this.db.insertTask(input)
StepCreateInsert(n) ==
    /\ calls[n].op = "create"
    /\ calls[n].pc = "insert"
    /\ nextId <= MaxAsyncTasks
    /\ tasks' = InsertTask(tasks, nextId,
                           [ NoInput EXCEPT !.dependencies = Some(calls[n].dependencies) ],
                           now)
    /\ nextId' = nextId + 1
    /\ completions' = Put(completions, nextId, 0)
    /\ calls' = [ calls EXCEPT ![n].pc = "read", ![n].id = nextId ]
    /\ UNCHANGED << now, config, last, plan >>

\* create or update at the closing await this.db.getTask(id)
StepRead(n) ==
    /\ calls[n].pc = "read"
    /\ calls' = [ calls EXCEPT ![n] =
                    Finish(@, IF GetTask(tasks, calls[n].id) = None
                              THEN "Task not found" ELSE "ok") ]
    /\ UNCHANGED << tasks, nextId, completions, now, config, last, plan >>

\* delete at await this.getDependents(id)
StepDeleteDependents(n) ==
    /\ calls[n].pc = "dependents"
    /\ calls' = [ calls EXCEPT ![n] =
                    IF GetDependents(tasks, calls[n].id) # {}
                    THEN Finish(@, "Cannot delete task")
                    ELSE [ @ EXCEPT !.pc = "delete" ] ]
    /\ UNCHANGED << tasks, nextId, completions, now, config, last, plan >>

\* delete at await this.db.deleteTask(id)
StepDeleteTask(n) ==
    /\ calls[n].pc = "delete"
    /\ tasks' = DeleteTask(tasks, calls[n].id)
    /\ completions' = Drop(completions, calls[n].id)
    /\ calls' = [ calls EXCEPT ![n] = Finish(@, "ok") ]
    /\ UNCHANGED << nextId, now, config, last, plan >>

\* getByPriority at await this.db.getTasks(...)
StepGetTasks(n) ==
    /\ calls[n].pc = "tasks"
    /\ \E order \in GetTasksOrders(tasks, { "open", "in_progress" }) :
         calls' = [ calls EXCEPT ![n] =
                      ToNextLookup([ @ EXCEPT !.rows = [ i \in 1..Len(order) |-> tasks[order[i]] ] ],
                                   tasks, AsyncEvalTime, now) ]
    /\ UNCHANGED << tasks, nextId, completions, now, config, last, plan >>

\* getByPriority at an await this.db.getTask(depId) of allDependenciesComplete
StepLookup(n) ==
    /\ calls[n].pc = "dep"
    /\ calls' = [ calls EXCEPT ![n] = LookupStep(@, tasks, AsyncEvalTime, now) ]
    /\ UNCHANGED << tasks, nextId, completions, now, config, last, plan >>

\* a plain task and a task that depends on task 1
AsyncInputs == { NoInput, [ NoInput EXCEPT !.dependencies = Some(<< 1 >>) ] }

\* the writing calls started asynchronously: two updates that make tasks 1
\* and 2 depend on each other, a create that depends on task 1, and the
\* delete of task 1
AsyncCalls ==
    { NewCall("update", 1, << 2 >>, "exists"),
      NewCall("update", 2, << 1 >>, "exists"),
      NewCall("create", 0, << 1 >>, "exists"),
      NewCall("delete", 1, << >>, "dependents") }

\* tasks are created before the asynchronous calls start; a call in flight
\* takes a step whenever it is its turn
NextAsync ==
    \/ \E input \in AsyncInputs :
         calls = << >> /\ nextId <= MaxAsyncTasks /\ Create(input)
    \/ \E c \in AsyncCalls : Start(c)
    \/ \E n \in DOMAIN calls : StepValidate(n)
    \/ \E n \in DOMAIN calls : StepUpdateWrite(n)
    \/ \E n \in DOMAIN calls : StepCreateInsert(n)
    \/ \E n \in DOMAIN calls : StepRead(n)
    \/ \E n \in DOMAIN calls : StepDeleteDependents(n)
    \/ \E n \in DOMAIN calls : StepDeleteTask(n)

SpecAsync == Init /\ [][NextAsync]_vars

\* priority passes started in one run
MaxPasses == 1

\* some getByPriority has read the tasks and has not returned
PassSuspended == \E n \in DOMAIN calls : calls[n].pc = "dep"

\* tasks are created before getByPriority starts; while a priority pass is
\* suspended at a store access, complete and reopen may run
NextPass ==
    \/ \E input \in AsyncInputs :
         calls = << >> /\ nextId <= MaxAsyncTasks /\ Create(input)
    \/ Len(calls) < MaxPasses /\ Start(NewCall("getByPriority", 0, << >>, "tasks"))
    \/ \E n \in DOMAIN calls : StepGetTasks(n)
    \/ \E n \in DOMAIN calls : StepLookup(n)
    \/ \E id \in DOMAIN tasks : PassSuspended /\ Complete(id, now)
    \/ \E id \in DOMAIN tasks : PassSuspended /\ Reopen(id)

SpecPass == Init /\ [][NextPass]_vars

\* the asynchronous calls of the given name that have returned without error
Succeeded(op) == { n \in DOMAIN calls : calls[n].op = op /\ calls[n].err = "ok" }

\* C26 as stated: within one getByPriority invocation every task is
\* evaluated against the same status of each dependency, also when a writer
\* completes or reopens a task while the pass is suspended at a store
\* access: two tasks that depend on the same task are both blocked or both
\* unblocked in the list returned.
C26_Original ==
    \A n \in Succeeded("getByPriority") :
        \A k1, k2 \in DOMAIN calls[n].entries :
            LET e1 == calls[n].entries[k1]
                e2 == calls[n].entries[k2]
            IN  (/\ Len(e1.task.dependencies) > 0
                 /\ e1.task.dependencies = e2.task.dependencies)
                => (e1.priority = Zero <=> e2.priority = Zero)

\* C27 as stated: the dependency graph stays acyclic when two update calls
\* interleave at their awaited store accesses: update(1, {dependencies: [2]})
\* and update(2, {dependencies: [1]}) cannot both succeed, and no
\* interleaving leaves a cycle in the store.
C27_Original ==
    /\ Acyclic(tasks)
    /\ ~\E n, k \in Succeeded("update") :
          /\ calls[n].id = 1 /\ calls[n].dependencies = << 2 >>
          /\ calls[k].id = 2 /\ calls[k].dependencies = << 1 >>

\* C28 as stated: when delete(1) interleaves at its awaited store accesses
\* with a create or update that adds task 1 as a dependency, no stored task
\* lists a dependency id that is absent from the store: the delete is
\* refused or the create or update fails.
C28_Original ==
    /\ NoDangling(tasks)
    /\ ~\E n \in Succeeded("delete"), k \in Succeeded("create") \cup Succeeded("update") :
          calls[n].id \in SeqToSet(calls[k].dependencies)

(***************************************************************************)
(* The scheduler specification: ChurnScheduler.completeTask beside         *)
(* TaskService.complete, on one-time and recurring tasks                   *)
(***************************************************************************)
\* tasks ever created in one run of the scheduler specification
MaxSchedulerTasks == 2

SchedulerIds == ArgIds(MaxSchedulerTasks)

\* ChurnScheduler.completeTask(completion): the task is looked up, a
\* completion row with the time tracking data is inserted, and
\* TaskService.complete runs, which inserts its own completion row
CompleteTask(id, completedAt) ==
    /\ id \in DOMAIN tasks => completions[id] < MaxCompletions
    /\ IF id \notin DOMAIN tasks
       THEN /\ last' = Called("completeTask", id, Err("Task not found", id), None)
            /\ UNCHANGED << tasks, completions >>
       ELSE /\ completions' = InsertCompletion(InsertCompletion(completions, id), id)
            /\ tasks' = Completed(tasks, id, completedAt)
            /\ last' = Called("completeTask", id, Ok, Some(completedAt))
    /\ plan' = NoPlan
    /\ UNCHANGED << nextId, now, config, calls >>

\* a one-time task and a task that recurs daily
SchedulerInputs == { NoInput, [ NoInput EXCEPT !.recurrence_pattern = Some(DailyCalendar) ] }

\* the instants of completion
SchedulerTimes == { Instant(14, 10, 30), Instant(15, 8, 0) }

NextScheduler ==
    \/ \E input \in SchedulerInputs : nextId <= MaxSchedulerTasks /\ Create(input)
    \/ \E id \in SchedulerIds, t \in SchedulerTimes : Complete(id, t)
    \/ \E id \in SchedulerIds, t \in SchedulerTimes : CompleteTask(id, t)

SpecScheduler == Init /\ [][NextScheduler]_vars

\* C29 as stated: each successful completion call, TaskService.complete or
\* ChurnScheduler.completeTask, records exactly one completion row for its
\* task, so that the rows of a task number its successful completion calls.
C29_Original ==
    [][(last'.op \in { "complete", "completeTask" } /\ last'.err = "ok")
       => completions'[last'.id] = completions[last'.id] + 1]_vars

(***************************************************************************)
(* The recurrence specification: recurring and one-time tasks with         *)
(* dependents, completed any number of times, and asked about by           *)
(* calculatePriority, getBlocked and planDay                               *)
(***************************************************************************)
\* tasks ever created in one run of the recurrence specification
MaxRecurTasks == 2

RecurIds == ArgIds(MaxRecurTasks)

\* TaskService.getBlocked: the ids of the Open and Blocked tasks that have
\* dependencies, not all of them Completed (the tasks come in the order of
\* getTasks; val holds them as a set)
GetBlocked ==
    /\ last' = Called("getBlocked", 0, Ok,
                      Some({ id \in DOMAIN tasks :
                               /\ tasks[id].status \in { "open", "blocked" }
                               /\ Len(tasks[id].dependencies) > 0
                               /\ ~AllDependenciesComplete(tasks, tasks[id].dependencies) }))
    /\ plan' = NoPlan
    /\ UNCHANGED << tasks, nextId, completions, now, config, calls >>

\* a one-time task, a task that recurs daily, a task that recurs a week
\* after its completion, and a task that depends on task 1
RecurInputs ==
    { NoInput,
      [ NoInput EXCEPT !.recurrence_pattern = Some(DailyCalendar) ],
      [ NoInput EXCEPT !.recurrence_pattern = Some(Pattern("completion", "weekly")) ],
      [ NoInput EXCEPT !.dependencies = Some(<< 1 >>) ] }

\* the instant priorities are asked about and the date plans are asked for
RecurEvalTime == Instant(20, 9, 0)

NextRecur ==
    \/ \E input \in RecurInputs : nextId <= MaxRecurTasks /\ Create(input)
    \/ \E id \in RecurIds, t \in SchedulerTimes : Complete(id, t)
    \/ \E id \in RecurIds : CalculatePriority(id, Some(RecurEvalTime))
    \/ GetBlocked
    \/ PlanDay(RecurEvalTime, None, None)

SpecRecur == Init /\ [][NextRecur]_vars

\* the stored tasks that list a stored recurring task as a dependency
DependsOnRecurring ==
    { id \in DOMAIN tasks :
        \E i \in 1..Len(tasks[id].dependencies) :
            IsRecurring(tasks, tasks[id].dependencies[i]) }

\* C30: a task that lists a recurring task as a dependency is never
\* unblocked by completing that dependency: after any number of complete
\* calls calculatePriority gives it 0, getBlocked returns it while it is
\* Open, and no plan holds it as scheduled or unscheduled.
C30_RecurringDependencyNeverUnblocks ==
    \A id \in DependsOnRecurring :
        /\ (last.op = "calculatePriority" /\ last.id = id) => last.val = Some(Zero)
        /\ (last.op = "getBlocked" /\ tasks[id].status = "open") => id \in Get(last.val)
        /\ last.op = "planDay" => \A task \in Planned : task.id # id

\* getBlocked returns the Open dependent of a recurring task that has been
\* completed and is Open again
C30_Witness ==
    /\ last.op = "getBlocked"
    /\ \E id \in DependsOnRecurring :
         /\ tasks[id].status = "open"
         /\ id \in Get(last.val)
         /\ \E i \in 1..Len(tasks[id].dependencies) :
              LET dep == tasks[id].dependencies[i]
              IN  /\ IsRecurring(tasks, dep)
                  /\ completions[dep] >= 1
                  /\ IsSome(tasks[dep].last_completed_at)
                  /\ tasks[dep].status = "open"

(***************************************************************************)
(* Daily tasks: complete on day d, plan day d + 1                          *)
(***************************************************************************)
MaxDailyTasks == 2

DailyIds == ArgIds(MaxDailyTasks)

\* a daily task with the default curve, one that takes longer than the work
\* day, one with a linear curve that has started, one with a linear curve
\* that starts on 2024-01-21, and a one-time task long overdue on the 16th
DailyInputs ==
    { [ NoInput EXCEPT !.recurrence_pattern = Some(DailyCalendar) ],
      [ NoInput EXCEPT !.recurrence_pattern = Some(DailyCalendar),
                       !.estimate_minutes = Some(600) ],
      [ NoInput EXCEPT !.recurrence_pattern = Some(DailyCalendar),
                       !.curve_config =
                           Some([ NoCurve EXCEPT !.type = Some("linear"),
                                                 !.start_date = Some(Instant(13, 9, 0)),
                                                 !.deadline = Some(Instant(17, 9, 0)) ]) ],
      [ NoInput EXCEPT !.recurrence_pattern = Some(DailyCalendar),
                       !.curve_config =
                           Some([ NoCurve EXCEPT !.type = Some("linear"),
                                                 !.start_date = Some(Instant(20, 0, 0)),
                                                 !.deadline = Some(Instant(27, 0, 0)) ]) ],
      [ NoInput EXCEPT !.deadline = Some(Instant(14, 12, 0)) ] }

\* completions at midnight, in the morning and in the last minute of two days
DailyTimes == { Instant(d, 0, 0) + m : d \in { 14, 15 }, m \in { 0, 630, 1439 } }

\* plans for the 16th and the 17th, with the default limit and with limit 1
DailyPlanCalls ==
    { << date, limit >> : date \in { Instant(15, 0, 0), Instant(16, 14, 0) },
                          limit \in { None, Some(1) } }

NextDaily ==
    \/ \E input \in DailyInputs : nextId <= MaxDailyTasks /\ Create(input)
    \/ \E id \in DailyIds, t \in DailyTimes : Complete(id, t)
    \/ \E c \in DailyPlanCalls : PlanDay(c[1], c[2], None)

SpecDaily == Init /\ [][NextDaily]_vars

\* the stored calendar-mode daily tasks without window and dependencies
\* that have been completed
CompletedDailyTasks ==
    { id \in DOMAIN tasks :
        /\ tasks[id].recurrence_pattern = Some(DailyCalendar)
        /\ ~IsSome(tasks[id].window_start) /\ ~IsSome(tasks[id].window_end)
        /\ Len(tasks[id].dependencies) = 0
        /\ IsSome(tasks[id].last_completed_at) }

\* the ids of the scheduled and of the unscheduled tasks of the plan
ScheduledIds == { plan.scheduled[i].task.task.id : i \in 1..Len(plan.scheduled) }

UnscheduledIds == { plan.unscheduled[i].task.task.id : i \in 1..Len(plan.unscheduled) }

\* the plan is for the day after the last completion of the task
PlannedForNextDay(id) ==
    /\ last.op = "planDay"
    /\ DayIndex(plan.date) = DayIndex(Get(tasks[id].last_completed_at)) + 1

\* the task is scheduled, or it found no free slot, or the limit was
\* reached, or the store holds more tasks than the 2 * limit planDay asks
\* getByPriority for
ScheduledIfRoom(id) ==
    \/ id \in ScheduledIds
    \/ id \in UnscheduledIds
    \/ Len(plan.scheduled) >= Get(last.val).limit
    \/ Cardinality(DOMAIN tasks) > 2 * Get(last.val).limit

\* next_due_at is 00:00 of the day after the completion and the task is Open
DueNextMidnight(id) ==
    /\ tasks[id].next_due_at
         = Some(StartOfDay(Get(tasks[id].last_completed_at)) + MinPerDay)
    /\ tasks[id].status = "open"

\* C31 as stated: a calendar-mode daily task without window and dependencies
\* completed on day d is due at 00:00 of day d + 1, stays Open, and the plan
\* of day d + 1 schedules it when there is room.
C31_Original ==
    \A id \in CompletedDailyTasks :
        /\ DueNextMidnight(id)
        /\ PlannedForNextDay(id) => ScheduledIfRoom(id)

\* C31 amended: the plan of day d + 1 schedules the task when there is room
\* and its priority at the instant the plan evaluates is not 0.
C31_DailyDueNextDayAndPlanned ==
    \A id \in CompletedDailyTasks :
        /\ DueNextMidnight(id)
        /\ ( /\ PlannedForNextDay(id)
             /\ CalculateTaskPriority(tasks, tasks[id],
                                      PriorityTime(plan.date, config), now) # Zero )
           => ScheduledIfRoom(id)

\* a daily task completed in the last minute of the 15th is scheduled in the
\* plan of the 16th
C31_Witness ==
    /\ last.op = "planDay"
    /\ \E id \in CompletedDailyTasks :
         /\ tasks[id].last_completed_at = Some(Instant(14, 23, 59))
         /\ tasks[id].next_due_at = Some(Instant(15, 0, 0))
         /\ PlannedForNextDay(id)
         /\ id \in ScheduledIds

(***************************************************************************)
(* Claims about next_due_at, checked in the recurrence specification       *)
(***************************************************************************)
\* the last call completed a recurring task of the given mode and type
CompletedPattern(mode, type) ==
    /\ last.op = "complete"
    /\ last.err = "ok"
    /\ IsRecurring(tasks, last.id)
    /\ Get(tasks[last.id].recurrence_pattern).mode = mode
    /\ Get(tasks[last.id].recurrence_pattern).type = type

\* the weekdays a weekly pattern asks for: days_of_week when it is given and
\* not empty, the single day_of_week otherwise
WeekdaysOf(pattern) ==
    IF IsSome(pattern.daysOfWeek) /\ Len(Get(pattern.daysOfWeek)) > 0
    THEN SeqToSet(Get(pattern.daysOfWeek))
    ELSE IF IsSome(pattern.dayOfWeek) THEN { Get(pattern.dayOfWeek) }
    ELSE {}

\* C32: after the completion of a calendar-mode weekly task that names its
\* weekdays, next_due_at is 00:00 of the earliest day strictly after the
\* completion day whose weekday is in days_of_week (when that set is not
\* empty) or equals day_of_week (otherwise); it lies 1 to 7 days after the
\* completion day and is never the completion day itself.
C32_WeeklyNextMatchingDay ==
    ( /\ CompletedPattern("calendar", "weekly")
      /\ WeekdaysOf(Get(tasks[last.id].recurrence_pattern)) # {} )
    => LET wanted == WeekdaysOf(Get(tasks[last.id].recurrence_pattern))
           day == StartOfDay(Get(last.val))
           due == Get(tasks[last.id].next_due_at)
       IN  \E k \in 1..7 :
             /\ due = day + Days(k)
             /\ GetDay(due) \in wanted
             /\ \A j \in 1..(k - 1) : GetDay(day + Days(j)) \notin wanted

\* a task with days_of_week [1, 3] and day_of_week 5 was completed on a
\* Monday evening and is due on the Wednesday
C32_Witness ==
    /\ CompletedPattern("calendar", "weekly")
    /\ Get(tasks[last.id].recurrence_pattern).daysOfWeek = Some(<< 1, 3 >>)
    /\ Get(tasks[last.id].recurrence_pattern).dayOfWeek = Some(5)
    /\ last.val = Some(Instant(14, 23, 59))
    /\ GetDay(Get(last.val)) = 1
    /\ tasks[last.id].next_due_at = Some(Instant(16, 0, 0))

\* C33 as stated: after the completion of a calendar-mode monthly task on any
\* date, next_due_at is 00:00 on the same day of the month in the month
\* after the completion month: its month is (completion month + 1) mod 12.
C33_Original ==
    CompletedPattern("calendar", "monthly")
    => LET due == Get(tasks[last.id].next_due_at) IN
         /\ MinuteOfDay(due) = 0
         /\ GetDate(due) = GetDate(Get(last.val))
         /\ GetMonth(due) = (GetMonth(Get(last.val)) + 1) % 12

\* the last call completed a recurring task in completion mode
CompletedInCompletionMode ==
    /\ last.op = "complete"
    /\ last.err = "ok"
    /\ IsRecurring(tasks, last.id)
    /\ Get(tasks[last.id].recurrence_pattern).mode = "completion"

\* D as the claim gives it: interval x unit for every Interval pattern that
\* has both, 0 included
StatedIntervalDays(pattern) ==
    IF pattern.type = "daily" THEN 1
    ELSE IF pattern.type = "weekly" THEN 7
    ELSE IF pattern.type = "monthly" THEN 30
    ELSE IF pattern.type = "interval" /\ IsSome(pattern.interval) /\ IsSome(pattern.unit)
         THEN Get(pattern.interval)
              * (CASE Get(pattern.unit) = "days" -> 1
                   [] Get(pattern.unit) = "weeks" -> 7
                   [] Get(pattern.unit) = "months" -> 30)
    ELSE 7

\* D with an interval of 0 counted as no interval
TruthyIntervalDays(pattern) ==
    IF /\ pattern.type = "interval"
       /\ IsSome(pattern.interval)
       /\ Get(pattern.interval) = 0
    THEN 7
    ELSE StatedIntervalDays(pattern)

\* C34 as stated: in completion mode next_due_at = completedAt + D days with
\* D = 1 for Daily, 7 for Weekly, 30 for Monthly, interval x unit days for
\* Interval and 7 otherwise, whatever the calendar fields of the pattern.
C34_Original ==
    CompletedInCompletionMode
    => tasks[last.id].next_due_at
         = Some(Get(last.val)
                + StatedIntervalDays(Get(tasks[last.id].recurrence_pattern)) * MinPerDay)

\* C34 amended: the same, with D = 7 for an Interval pattern whose interval
\* is 0 or missing or whose unit is missing.
C34_CompletionModeAddsInterval ==
    CompletedInCompletionMode
    => tasks[last.id].next_due_at
         = Some(Get(last.val)
                + TruthyIntervalDays(Get(tasks[last.id].recurrence_pattern)) * MinPerDay)

\* a completion-mode pattern of 2 weeks with an anchor was completed at
\* 10:30 and is due 14 days later at 10:30
C34_Witness ==
    /\ CompletedInCompletionMode
    /\ LET p == Get(tasks[last.id].recurrence_pattern) IN
         /\ p.type = "interval"
         /\ p.interval = Some(2)
         /\ p.unit = Some("weeks")
         /\ IsSome(p.anchor)
    /\ last.val = Some(Instant(16, 10, 30))
    /\ tasks[last.id].next_due_at = Some(Instant(30, 10, 30))

(***************************************************************************)
(* The cycle check of update over stores that hold cycles and duplicates   *)
(***************************************************************************)
MaxWalkTasks == 3

MaxWalkCalls == 3

\* an update call as it is started, with a count of the store reads its
\* cycle check has made
NewWalkCall(id, dependencies) ==
    NewCall("update", id, dependencies, "exists") @@ [ reads |-> 0 ]

\* updates that make tasks 1 and 2 depend on each other when they interleave,
\* one of them with a duplicate id, and updates of task 3 that walk through
\* tasks 1 and 2
WalkCalls ==
    { NewWalkCall(1, << 2 >>),
      NewWalkCall(2, << 1, 1 >>),
      NewWalkCall(3, << 1, 2 >>),
      NewWalkCall(3, << 2, 2 >>) }

StartWalk(c) ==
    /\ Len(calls) < MaxWalkCalls
    /\ c.id \in DOMAIN tasks
    /\ calls' = Append(calls, c)
    /\ UNCHANGED << tasks, nextId, completions, now, config, last, plan >>

\* update at an await of validateDependencies; a read of the while loop is
\* counted
StepWalkValidate(n) ==
    /\ calls[n].pc \in { "exists", "walk" }
    /\ calls' = [ calls EXCEPT ![n] =
                    [ ValidateStep(@, tasks) EXCEPT
                        !.reads = IF calls[n].pc = "walk" THEN @ + 1 ELSE @ ] ]
    /\ UNCHANGED << tasks, nextId, completions, now, config, last, plan >>

\* a call in flight takes its next step
StepWalk(n) == StepWalkValidate(n) \/ StepUpdateWrite(n) \/ StepRead(n)

NextWalk ==
    \/ calls = << >> /\ nextId <= MaxWalkTasks /\ Create(NoInput)
    \/ \E c \in WalkCalls : StartWalk(c)
    \/ \E n \in DOMAIN calls : StepWalkValidate(n)
    \/ \E n \in DOMAIN calls : StepUpdateWrite(n)
    \/ \E n \in DOMAIN calls : StepRead(n)

\* the event loop resumes every call whose awaited store access has settled
SpecWalk ==
    Init /\ [][NextWalk]_vars /\ WF_vars(\E n \in DOMAIN calls : StepWalk(n))

\* the ids of the dependency graph: the stored tasks and the ids they list
GraphIds(T) == DOMAIN T \cup UNION { SeqToSet(T[id].dependencies) : id \in DOMAIN T }

\* every id read by the cycle check of a call was read once: the reads made
\* are those of the ids visited, the one awaited excepted
ReadsBounded ==
    \A n \in DOMAIN calls :
        /\ calls[n].reads <= Cardinality(calls[n].visited)
        /\ calls[n].visited \subseteq GraphIds(tasks)
        /\ calls[n].reads <= Cardinality(GraphIds(tasks))

\* C35: the cycle check of update terminates for every stored dependency
\* graph, also one that holds a cycle that does not pass through the updated
\* task and one with duplicate dependency ids: each task id is read at most
\* once, so the reads number at most the ids of the graph, and every update
\* started returns or throws.
C35_CycleCheckTerminates ==
    /\ []ReadsBounded
    /\ \A n \in 1..MaxWalkCalls :
         [](n \in DOMAIN calls => <>(n \in DOMAIN calls /\ calls[n].pc = "done"))

\* update(3, [1, 2]) has passed its cycle check with two reads over a store
\* in which tasks 1 and 2 depend on each other and task 2 lists task 1 twice
C35_Witness ==
    /\ ~Acyclic(tasks)
    /\ tasks[2].dependencies = << 1, 1 >>
    /\ \E n \in DOMAIN calls :
         /\ calls[n].id = 3
         /\ calls[n].dependencies = << 1, 2 >>
         /\ calls[n].pc = "done"
         /\ calls[n].err = "ok"
         /\ calls[n].visited = { 1, 2 }
         /\ calls[n].reads = 2

(***************************************************************************)
(* The curves on their own: each curve class is constructed from arguments *)
(* of a bounded set and asked for its value at an instant                  *)
(***************************************************************************)
MaxBlockedTasks == 2

BlockedIds == ArgIds(MaxBlockedTasks)

\* new C(args).calculate(datetime): the arguments, and the value returned
\* unless the constructor threw
Evaluated(class, rejects, args, value, datetime) ==
    [ Called(class, 0, IF rejects THEN Err("rejected", 0) ELSE Ok,
             Some([ args |-> args, value |-> IF rejects THEN None ELSE Some(value) ]))
      EXCEPT !.at = Some(datetime) ]

\* new LinearCurve(startDate, deadline).calculate(datetime)
LinearCurve(startDate, deadline, datetime) ==
    /\ last' = Evaluated("LinearCurve", LinearRejects(startDate, deadline),
                         [ startDate |-> startDate, deadline |-> deadline ],
                         LinearCalculate(startDate, deadline, datetime), datetime)
    /\ plan' = NoPlan
    /\ UNCHANGED << tasks, nextId, completions, now, config, calls >>

\* new ExponentialCurve(startDate, deadline, exponent).calculate(datetime)
ExponentialCurve(startDate, deadline, exponent, datetime) ==
    /\ last' = Evaluated("ExponentialCurve",
                         ExponentialRejects(startDate, deadline, exponent),
                         [ startDate |-> startDate, deadline |-> deadline,
                           exponent |-> exponent ],
                         ExponentialCalculate(startDate, deadline, exponent, datetime),
                         datetime)
    /\ plan' = NoPlan
    /\ UNCHANGED << tasks, nextId, completions, now, config, calls >>

\* new AccumulatorCurve(recurrence, lastCompleted, nextDue, buildupRate)
\* .calculate(datetime); the constructor accepts everything
AccumulatorCurve(recurrence, lastCompleted, nextDue, buildupRate, datetime) ==
    /\ last' = Evaluated("AccumulatorCurve", FALSE,
                         [ recurrence |-> recurrence, lastCompleted |-> lastCompleted,
                           nextDue |-> nextDue, buildupRate |-> buildupRate ],
                         AccumulatorCalculate(recurrence, lastCompleted, nextDue,
                                              buildupRate, datetime),
                         datetime)
    /\ plan' = NoPlan
    /\ UNCHANGED << tasks, nextId, completions, now, config, calls >>

\* new BlockedCurve(dependencies, new LinearCurve(startDate, deadline), store)
\* .calculate(datetime)
BlockedCurve(dependencies, startDate, deadline, datetime) ==
    /\ last' = Evaluated("BlockedCurve", BlockedRejects(dependencies),
                         [ dependencies |-> dependencies,
                           startDate |-> startDate, deadline |-> deadline ],
                         BlockedCalculate(tasks, dependencies,
                                          LinearCalculate(startDate, deadline, datetime)),
                         datetime)
    /\ plan' = NoPlan
    /\ UNCHANGED << tasks, nextId, completions, now, config, calls >>

\* start dates and deadlines a day apart, so that a deadline comes before,
\* at and after a start date
CurveStarts == { Instant(14, 9, 0), Instant(15, 9, 0) }

CurveDeadlines == { Instant(14, 9, 0), Instant(15, 9, 0), Instant(16, 9, 0) }

\* instants before, at and behind every start date and deadline
CurveInstants ==
    { Instant(13, 9, 0), Instant(14, 8, 59), Instant(14, 9, 0), Instant(14, 21, 0),
      Instant(15, 8, 59), Instant(15, 9, 0), Instant(15, 9, 1), Instant(16, 9, 0),
      Instant(16, 9, 1), Instant(18, 9, 0) }

\* whole exponents below, in and above 1..5
CurveExponents == 0..6

\* instants a quarter of a day apart about the start dates and deadlines
ExponentialInstants ==
    { Instant(13, 9, 0), Instant(14, 9, 0), Instant(14, 15, 0), Instant(14, 21, 0),
      Instant(15, 9, 0), Instant(15, 15, 0), Instant(16, 3, 0), Instant(16, 9, 0),
      Instant(16, 15, 0), Instant(18, 9, 0) }

\* daily, weekly and 2-day patterns, and interval patterns with interval 0
\* and with nothing but their type
AccumulatorPatterns(mode) ==
    { Pattern(mode, "daily"), Pattern(mode, "weekly"), Pattern(mode, "interval"),
      [ Pattern(mode, "interval") EXCEPT !.interval = Some(2), !.unit = Some("days") ],
      [ Pattern(mode, "interval") EXCEPT !.interval = Some(0), !.unit = Some("days") ] }

AccumulatorDue == Instant(20, 0, 0)

AccumulatorLast == Instant(13, 0, 0)

\* minutes up to a day before and up to six days behind the due instant,
\* and minutes from the last completion to each step of the ratio for
\* intervals of 1, 2 and 7 days
AccumulatorInstants ==
    { AccumulatorDue + m :
        m \in { -5760, -5041, -5040, -1441, -1440, -721, -720, -360, 0, 1, 360, 1440,
                7200, 8640 } }
    \cup { AccumulatorLast + m :
             m \in { -1440, 0, 719, 720, 1151, 1152, 1439, 1440, 1727, 1728, 2304,
                     2879, 2880, 3456, 5039, 5040, 8063, 8064, 10079, 10080, 12095,
                     12096 } }

\* the default rate, no buildup, and a day's buildup of 1
BuildupRates == { R(1, 10), Zero, One }

\* linear and exponential curves
NextDeadlineCurves ==
    \/ \E s \in CurveStarts, e \in CurveDeadlines, t \in CurveInstants :
         LinearCurve(s, e, t)
    \/ \E s \in CurveStarts, e \in CurveDeadlines, k \in CurveExponents,
          t \in ExponentialInstants :
         ExponentialCurve(s, e, k, t)

SpecDeadlineCurves == Init /\ [][NextDeadlineCurves]_vars

\* accumulator curves of one mode
NextAccumulator(mode, dues, rates) ==
    \E r \in AccumulatorPatterns(mode), l \in { None, Some(AccumulatorLast) },
       d \in dues, b \in rates, t \in AccumulatorInstants :
        AccumulatorCurve(r, l, d, b, t)

NextCalendar == NextAccumulator("calendar", { AccumulatorDue }, BuildupRates)

SpecCalendar == Init /\ [][NextCalendar]_vars

NextCompletion ==
    NextAccumulator("completion", { AccumulatorDue, AccumulatorLast }, { R(1, 10) })

SpecCompletion == Init /\ [][NextCompletion]_vars

\* blocked curves over a store of tasks that are Open, In Progress or
\* Completed
NextBlocked ==
    \/ nextId <= MaxBlockedTasks /\ Create(NoInput)
    \/ \E id \in BlockedIds : Complete(id, now)
    \/ \E id \in BlockedIds :
         Update(id, [ NoUpdate EXCEPT !.status = Some("in_progress") ])
    \/ \E d \in DepLists(MaxBlockedTasks, MaxDeps), s \in CurveStarts,
          t \in CurveInstants :
         BlockedCurve(d, s, Instant(16, 9, 0), t)

SpecBlocked == Init /\ [][NextBlocked]_vars

\* the arguments, the value and the instant of the last evaluation
EvalArgs == Get(last.val).args

EvalValue == Get(last.val).value

EvalInstant == Get(last.at)

\* 1 + (t - deadline) / (deadline - start)
OverdueValue(s, e, t) == RAdd(One, R(t - e, e - s))

\* the values C36 states for new LinearCurve(start, deadline).calculate(t)
LinearAsStated ==
    last.op = "LinearCurve"
    => LET s == EvalArgs.startDate
           e == EvalArgs.deadline
           t == EvalInstant
       IN  IF e <= s THEN last.err = "rejected" /\ EvalValue = None
           ELSE /\ last.err = "ok"
                /\ IsSome(EvalValue)
                /\ t < s => Get(EvalValue) = Zero
                /\ (s <= t /\ t <= e) => Get(EvalValue) = R(t - s, e - s)
                /\ t = e => Get(EvalValue) = One
                /\ t > e => /\ Get(EvalValue) = OverdueValue(s, e, t)
                            /\ RLt(One, Get(EvalValue))

\* two evaluations in a row of the same curve of the given class, the
\* second at a later instant, give values in that order
LaterIsNoLess(class) ==
    ( /\ last.op = class /\ last'.op = class
      /\ last.err = "ok" /\ last'.err = "ok"
      /\ Get(last.val).args = Get(last'.val).args
      /\ Get(last.at) <= Get(last'.at) )
    => RLe(Get(Get(last.val).value), Get(Get(last'.val).value))

\* C36: LinearCurve(start, deadline) is rejected when deadline <= start;
\* otherwise calculate(t) is 0 for t < start, (t - start) / (deadline - start)
\* from start to deadline, exactly 1 at the deadline, and
\* 1 + (t - deadline) / (deadline - start) behind it, which is above 1; the
\* value never decreases as t grows.
C36_LinearCurve == []LinearAsStated /\ [][LaterIsNoLess("LinearCurve")]_vars

\* a curve from the 15th to the 17th was asked a minute behind its deadline
C36_Witness ==
    /\ last.op = "LinearCurve"
    /\ last.err = "ok"
    /\ EvalArgs = [ startDate |-> Instant(14, 9, 0), deadline |-> Instant(16, 9, 0) ]
    /\ EvalInstant = Instant(16, 9, 1)
    /\ EvalValue = Some(R(2881, 2880))

\* C37: ExponentialCurve(start, deadline, k) is rejected when deadline <=
\* start or k is outside 1..5; otherwise calculate(t) is 0 before start,
\* ((t - start) / (deadline - start))^k from start to deadline, which is
\* never above the linear value and exactly 1 at the deadline, and the
\* linear overdue value 1 + (t - deadline) / (deadline - start) behind the
\* deadline, not raised to k.
C37_ExponentialCurve ==
    last.op = "ExponentialCurve"
    => LET s == EvalArgs.startDate
           e == EvalArgs.deadline
           k == EvalArgs.exponent
           t == EvalInstant
       IN  IF e <= s \/ k < 1 \/ k > 5 THEN last.err = "rejected" /\ EvalValue = None
           ELSE /\ last.err = "ok"
                /\ IsSome(EvalValue)
                /\ t < s => Get(EvalValue) = Zero
                /\ (s <= t /\ t <= e)
                   => /\ Get(EvalValue) = RPow(R(t - s, e - s), k)
                      /\ RLe(Get(EvalValue), R(t - s, e - s))
                /\ t = e => Get(EvalValue) = One
                /\ t > e => Get(EvalValue) = OverdueValue(s, e, t)

\* a cubic curve from the 15th to the 17th was asked six hours behind its
\* deadline and gave 1 1/8
C37_Witness ==
    /\ last.op = "ExponentialCurve"
    /\ last.err = "ok"
    /\ EvalArgs = [ startDate |-> Instant(14, 9, 0), deadline |-> Instant(16, 9, 0),
                    exponent |-> 3 ]
    /\ EvalInstant = Instant(16, 15, 0)
    /\ EvalValue = Some(R(9, 8))

\* the expected interval D in days as the specification tabulates it, an
\* interval pattern without interval or unit counting 1 and days
StatedExpectedDays(recurrence) ==
    IF recurrence.type = "daily" THEN 1
    ELSE IF recurrence.type = "weekly" THEN 7
    ELSE IF recurrence.type = "monthly" THEN 30
    ELSE IF recurrence.type = "interval"
         THEN OrElse(recurrence.interval, 1)
              * (CASE OrElse(recurrence.unit, "days") = "days" -> 1
                   [] OrElse(recurrence.unit, "days") = "weeks" -> 7
                   [] OrElse(recurrence.unit, "days") = "months" -> 30)
    ELSE 7

\* the last evaluation was that of an accumulator curve of the given mode
AccumulatorEvaluated(mode) ==
    /\ last.op = "AccumulatorCurve"
    /\ EvalArgs.recurrence.mode = mode

\* the values C38 states for the calendar mode, for the expected interval
\* D, and its bounds 0.2 and 1.5
CalendarAsStated(D) ==
    LET delta == R(EvalArgs.nextDue - EvalInstant, MinPerDay)
        half == R(D, 2)
        rate == EvalArgs.buildupRate
        v == Get(EvalValue)
    IN  /\ RLt(half, delta) => v = R(1, 5)
        /\ (RLe(Zero, delta) /\ RLe(delta, half) /\ D > 0)
           => v = RAdd(R(1, 5), RMul(RSub(One, RDiv(delta, half)), R(4, 5)))
        /\ RLt(delta, Zero)
           => v = (IF RLe(R(3, 2), RAdd(One, RMul(RAbs(delta), rate)))
                   THEN R(3, 2) ELSE RAdd(One, RMul(RAbs(delta), rate)))
        /\ IsNumber(v)
        /\ RLe(R(1, 5), v)
        /\ RLe(v, R(3, 2))

CalendarStatedHolds == CalendarAsStated(StatedExpectedDays(EvalArgs.recurrence))

\* C38 as stated: an accumulator curve in calendar mode, with delta the days
\* from t to next_due and D the expected interval, gives 0.2 when delta >
\* D / 2, 0.2 + (1 - delta / (D / 2)) * 0.8 when 0 <= delta <= D / 2 and
\* min(1.5, 1 + |delta| * buildup_rate) when delta < 0; for a buildup rate
\* that is not negative the value never decreases as t grows and is always
\* within 0.2 and 1.5.
C38_Original ==
    [](AccumulatorEvaluated("calendar") => CalendarStatedHolds)
    /\ [][LaterIsNoLess("AccumulatorCurve")]_vars

\* the values C39 states for the completion mode, for the expected interval
\* D: the steps of the ratio r, and 0.9 for a curve without last completion
CompletionAsStated(D) ==
    LET lastDone == OrElse(EvalArgs.lastCompleted, EvalInstant - Days(D))
        r == RDiv(R(EvalInstant - lastDone, MinPerDay), R(D, 1))
        v == Get(EvalValue)
    IN  /\ D > 0
           => v = (IF RLt(r, R(1, 2)) THEN R(1, 10)
                   ELSE IF RLt(r, R(4, 5)) THEN R(3, 10)
                   ELSE IF RLt(r, One) THEN R(3, 5)
                   ELSE IF RLt(r, R(6, 5)) THEN R(9, 10)
                   ELSE One)
        /\ EvalArgs.lastCompleted = None => v = R(9, 10)

\* C39 as stated: an accumulator curve in completion mode, with r the days
\* since last_completed over D, gives 0.1 for r < 0.5, 0.3 for r < 0.8, 0.6
\* for r < 1, 0.9 for r < 1.2 and 1 from 1.2 on; without a last completion
\* it gives 0.9 at every t; next_due has no effect.
C39_Original ==
    AccumulatorEvaluated("completion")
    => CompletionAsStated(StatedExpectedDays(EvalArgs.recurrence))

\* C40: BlockedCurve is rejected when built with an empty dependency list;
\* otherwise calculate(t) returns 0 if a listed dependency is not stored or
\* has a status other than Completed, and exactly the value of the inner
\* curve at t when every listed dependency is Completed.
C40_BlockedCurve ==
    last.op = "BlockedCurve"
    => LET deps == EvalArgs.dependencies
           inner == LinearCalculate(EvalArgs.startDate, EvalArgs.deadline, EvalInstant)
       IN  IF Len(deps) = 0 THEN last.err = "rejected" /\ EvalValue = None
           ELSE /\ last.err = "ok"
                /\ IsSome(EvalValue)
                /\ (\E i \in 1..Len(deps) :
                       \/ deps[i] \notin DOMAIN tasks
                       \/ tasks[deps[i]].status # "completed")
                   => Get(EvalValue) = Zero
                /\ (\A i \in 1..Len(deps) :
                       /\ deps[i] \in DOMAIN tasks
                       /\ tasks[deps[i]].status = "completed")
                   => Get(EvalValue) = inner

\* a curve blocked by tasks 1 and 2, both Completed, gave the value 1/4 of
\* its inner curve
C40_Witness ==
    /\ last.op = "BlockedCurve"
    /\ last.err = "ok"
    /\ EvalArgs.dependencies = << 1, 2 >>
    /\ DOMAIN tasks = { 1, 2 }
    /\ \A id \in { 1, 2 } : tasks[id].status = "completed"
    /\ EvalArgs.startDate = Instant(14, 9, 0)
    /\ EvalInstant = Instant(14, 21, 0)
    /\ EvalValue = Some(R(1, 4))

=============================================================================
